---- MODULE Spec2Model ----
(***************************************************************************)
(* Transcript normalisation of the whisper-test scripts.                   *)
(*                                                                         *)
(* A Python str is modelled as a sequence of characters, each character a  *)
(* one-character TLA+ string.  A character outside ASCII is written as its *)
(* code point, "u5B57" for U+5B57: the tools read ASCII only.  Python's    *)
(* None is the empty sequence None and a present value x is Some(x).       *)
(***************************************************************************)
EXTENDS Integers, Sequences, FiniteSets, TLC

(***************************************************************************)
(* Characters and the character classes of str and re.                     *)
(***************************************************************************)
Digits == {"0", "1", "2", "3", "4", "5", "6", "7", "8", "9"}

UpperSeq == <<"A", "B", "C", "D", "E", "F", "G", "H", "I", "J", "K", "L", "M",
              "N", "O", "P", "Q", "R", "S", "T", "U", "V", "W", "X", "Y", "Z">>

LowerSeq == <<"a", "b", "c", "d", "e", "f", "g", "h", "i", "j", "k", "l", "m",
              "n", "o", "p", "q", "r", "s", "t", "u", "v", "w", "x", "y", "z">>

Letters == {UpperSeq[k] : k \in 1..26} \cup {LowerSeq[k] : k \in 1..26}

\* The ideographs that occur in the patterns, the spec's examples and the inputs.
Ideographs ==
    {"u4E16", "u4ECA", "u4F5C", "u4F60", "u4F9B", "u5236", "u53F0", "u555F",
     "u559C", "u5831", "u5927", "u5929", "u597D", "u5B57", "u5BB6", "u5BF9",
     "u5C0F", "u5E55", "u5F97", "u5FEB", "u6309", "u638C", "u63D0", "u653F",
     "u65B0", "u6821", "u6A02", "u6B61", "u6C23", "u6CBB", "u7063", "u7531",
     "u754C", "u793E", "u7B11", "u7FA4", "u7FFB", "u805E", "u8072", "u8A02",
     "u8A18", "u8ACB", "u8B9A", "u8BD1", "u9053", "u9234", "u943A", "u958B",
     "u95B1", "u97F3", "u983B"}

\* str.isspace / the class \s of re, on the characters used here.
IsSpace(c) == c \in {" ", "\n", "\t", "\r"}

\* str.isalnum: letters, digits and ideographs; "u3002" (the ideographic full
\* stop), ASCII punctuation, brackets and whitespace are not alphanumeric.
IsAlnum(c) == c \in Letters \cup Digits \cup Ideographs

\* Case folding of re.IGNORECASE.
Fold(c) ==
    IF \E k \in 1..26 : UpperSeq[k] = c
    THEN LowerSeq[CHOOSE k \in 1..26 : UpperSeq[k] = c]
    ELSE c

None == <<>>
Some(x) == <<x>>

(***************************************************************************)
(* str methods.                                                            *)
(***************************************************************************)
RECURSIVE LStrip(_)
LStrip(s) == IF s # <<>> /\ IsSpace(Head(s)) THEN LStrip(Tail(s)) ELSE s

RECURSIVE RStrip(_)
RStrip(s) ==
    IF s # <<>> /\ IsSpace(s[Len(s)]) THEN RStrip(SubSeq(s, 1, Len(s) - 1)) ELSE s

\* str.strip()
Strip(s) == RStrip(LStrip(s))

\* text.split('\n'): always at least one piece.
RECURSIVE Split(_)
Split(s) ==
    IF \E k \in 1..Len(s) : s[k] = "\n"
    THEN LET k == CHOOSE j \in 1..Len(s) :
                      s[j] = "\n" /\ \A h \in 1..(j - 1) : s[h] # "\n"
         IN  <<SubSeq(s, 1, k - 1)>> \o Split(SubSeq(s, k + 1, Len(s)))
    ELSE <<s>>

\* '\n'.join(lines)
RECURSIVE Join(_)
Join(ls) ==
    IF ls = <<>> THEN <<>>
    ELSE IF Len(ls) = 1 THEN ls[1]
    ELSE ls[1] \o <<"\n">> \o Join(Tail(ls))

\* ''.join(c for c in line if c.isalnum())
RECURSIVE KeepAlnum(_)
KeepAlnum(s) ==
    IF s = <<>> THEN <<>>
    ELSE IF IsAlnum(Head(s)) THEN <<Head(s)>> \o KeepAlnum(Tail(s))
    ELSE KeepAlnum(Tail(s))

\* shorter in longer
Contains(longer, shorter) ==
    \E k \in 0..(Len(longer) - Len(shorter)) :
        SubSeq(longer, k + 1, k + Len(shorter)) = shorter

(***************************************************************************)
(* The regular expressions of re, as the backtracking matcher runs them.   *)
(* A pattern is a sequence of elements: a literal character, or a class    *)
(* repeated at least min times, greedily (longest first) or lazily         *)
(* (shortest first).                                                       *)
(***************************************************************************)
Lit(c) == [t |-> "lit", c |-> c, cls |-> "", min |-> 1, greedy |-> TRUE]
Rep(cls, min, greedy) == [t |-> "rep", c |-> "", cls |-> cls, min |-> min, greedy |-> greedy]

\* "text" as a pattern matching exactly that text
Lits(s) == [k \in 1..Len(s) |-> Lit(s[k])]

InClass(cls, c) ==
    CASE cls = "digit" -> c \in Digits      \* \d
      [] cls = "space" -> IsSpace(c)        \* \s
      [] cls = "nl"    -> c = "\n"          \* \n
      [] OTHER         -> c # "\n"          \* .

\* the length of the longest run of class characters of s from position i
RECURSIVE RunLen(_, _, _)
RunLen(cls, s, i) ==
    IF i <= Len(s) /\ InClass(cls, s[i]) THEN 1 + RunLen(cls, s, i + 1) ELSE 0

SetMax(S) == CHOOSE x \in S : \A y \in S : y <= x
SetMin(S) == CHOOSE x \in S : \A y \in S : x <= y

\* Elements k.. of pat matched against s from position i, ic being
\* re.IGNORECASE: the positions at which each element starts, then the position
\* after the match; <<>> when there is no match.  A repetition takes the first
\* count, in its order of preference, with which the rest of the pattern matches.
RECURSIVE MatchAt(_, _, _, _, _)
MatchAt(pat, k, s, i, ic) ==
    IF k > Len(pat) THEN <<i>>
    ELSE LET el == pat[k] IN
        IF el.t = "lit"
        THEN IF i <= Len(s) /\ (s[i] = el.c \/ (ic /\ Fold(s[i]) = Fold(el.c)))
             THEN LET rest == MatchAt(pat, k + 1, s, i + 1, ic)
                  IN  IF rest = <<>> THEN <<>> ELSE <<i>> \o rest
             ELSE <<>>
        ELSE LET run == RunLen(el.cls, s, i)
                 ok  == {n \in el.min..run : MatchAt(pat, k + 1, s, i + n, ic) # <<>>}
             IN  IF ok = {} THEN <<>>
                 ELSE LET n == IF el.greedy THEN SetMax(ok) ELSE SetMin(ok)
                      IN  <<i>> \o MatchAt(pat, k + 1, s, i + n, ic)

\* re.match(pat, s): a match at the start of s only
ReMatch(pat, s, ic) == MatchAt(pat, 1, s, 1, ic)

\* re.search(pat, s) is not None
ReFound(pat, s, ic) == \E i \in 1..(Len(s) + 1) : MatchAt(pat, 1, s, i, ic) # <<>>

\* re.sub(pat, repl, s): the leftmost non-overlapping matches are replaced, left
\* to right, in one pass.  No pattern of the program matches the empty string.
RECURSIVE SubFrom(_, _, _, _, _)
SubFrom(pat, repl, s, i, ic) ==
    IF i > Len(s) THEN <<>>
    ELSE LET m == MatchAt(pat, 1, s, i, ic) IN
        IF m # <<>> /\ m[Len(m)] > i
        THEN repl \o SubFrom(pat, repl, s, m[Len(m)], ic)
        ELSE <<s[i]>> \o SubFrom(pat, repl, s, i + 1, ic)

ReSub(pat, repl, s, ic) == SubFrom(pat, repl, s, 1, ic)

(***************************************************************************)
(* State.  pc is the position of the routine that is running; the other    *)
(* variables are the arguments and locals of the routines, under their     *)
(* names in the source.  A local that two routines name alike (lines,      *)
(* text, prev_line, cleaned) is one variable: the routines never run       *)
(* together.                                                               *)
(***************************************************************************)
VARIABLES
    pc,         \* position in the running routine
    lines,      \* clean_repeated_lines: the argument; save_transcript: the lines built
    i,          \* index of the loop over lines / segments
    cleaned,    \* clean_repeated_lines: the list being built
    last_text,  \* clean_repeated_lines: content of the last kept line, or None
    text,       \* the local text of clean_repeated_lines, save_transcript, _clean_subtitle_markers
    prev_line,  \* save_transcript: the last kept segment text, or None
    line1,      \* _is_duplicate_line: first argument
    line2,      \* _is_duplicate_line: second argument
    threshold,  \* _is_duplicate_line: third argument, a fraction <<num, den>>
    ret,        \* the value a routine returned, or None
    result,     \* save_transcript: the recognizer result
    txt,        \* save_transcript: content of <video_id>.txt, or None
    transcripts,    \* the transcripts directory: stem |-> content of <stem>.txt, or None
    calls,          \* the invocations of the external tools so far
    audio_dir,      \* transcribe_fw: the names of the files of AUDIO_DIR
    TOTAL_SHARDS,   \* transcribe_fw: the environment variable TOTAL_SHARDS
    audio_files,    \* transcribe_fw: the list audio_files of each worker
    pos,            \* transcribe_fw: each worker's position in its audio_files
    wpc,            \* transcribe_fw: each worker's position in the script
    segments,       \* transcribe_fw: the segments each worker's recognizer has yet to yield
    writers,        \* transcribe_fw: stem |-> the workers that opened <stem>.txt for writing
    video_info,         \* batch_transcribe: self.video_info, in the order of the dict
    start_from,         \* batch_transcribe: the argument start_from
    max_videos,         \* batch_transcribe: the argument max_videos, or None
    videos_to_process,  \* batch_transcribe: the worklist
    success_count,      \* batch_transcribe: items done
    error_count,        \* batch_transcribe: items failed
    skip_count,         \* batch_transcribe: items skipped
    hint,               \* batch_transcribe: the start_from value printed on interruption, or None
    run,                \* which run of the tool this is
    videos,     \* process_json_file and download_audio_from_json.main: data['videos']
    manifest,   \* download_audio_from_json.main: the videos with their audio
    failed,     \* download_audio_from_json.main: the videos without
    audio,      \* download_audio_from_json: video id |-> state of <video_id>.mp3 in OUTPUT_DIR
    platform,   \* video id |-> what the platform and the tools give for the video
    video_url,  \* process_video: the argument video_url
    keep_audio, \* process_video: the argument keep_audio
    audio_path, \* process_video: the local audio_path, or None
    temp_audio  \* whether temp_audio.mp3 exists

vars == <<pc, lines, i, cleaned, last_text, text, prev_line, line1, line2,
          threshold, ret, result, txt, transcripts, calls, audio_dir,
          TOTAL_SHARDS, audio_files, pos, wpc, segments, writers, video_info,
          start_from, max_videos, videos_to_process, success_count, error_count,
          skip_count, hint, run, videos, manifest, failed, audio, platform,
          video_url, keep_audio, audio_path, temp_audio>>

crlVars == <<lines, i, cleaned, last_text>>
dupVars == <<line1, line2, threshold>>
saveVars == <<prev_line, result, txt>>

CrlIdle == lines = <<>> /\ i = 1 /\ cleaned = <<>> /\ last_text = None
DupIdle == line1 = <<>> /\ line2 = <<>> /\ threshold = <<0, 1>>
NoResult == [kind |-> "none", segments |-> <<>>, text |-> <<>>]

SaveIdle == prev_line = None /\ result = NoResult /\ txt = None

fwVars == <<audio_dir, TOTAL_SHARDS, audio_files, pos, wpc, segments, writers>>
btVars == <<video_info, start_from, max_videos, videos_to_process, success_count,
            error_count, skip_count, hint, run>>
pjVars == <<videos>>
dlVars == <<manifest, failed, audio>>
envVars == <<platform>>
pvVars == <<video_url, keep_audio, audio_path, temp_audio>>
drvVars == <<transcripts, calls, fwVars, btVars, pjVars, dlVars, envVars, pvVars>>
\* the variables of the normaliser, without pc and without i
normVars == <<lines, cleaned, last_text, text, dupVars, saveVars, ret>>

FwIdle ==
    /\ audio_dir = {}
    /\ TOTAL_SHARDS = 1
    /\ audio_files = <<>>
    /\ pos = <<>>
    /\ wpc = <<>>
    /\ segments = <<>>
    /\ writers = <<>>

BtIdle ==
    /\ video_info = <<>>
    /\ start_from = 0
    /\ max_videos = None
    /\ videos_to_process = <<>>
    /\ success_count = 0
    /\ error_count = 0
    /\ skip_count = 0
    /\ hint = None
    /\ run = 1

NormIdle == CrlIdle /\ DupIdle /\ SaveIdle /\ text = <<>> /\ ret = None

PjIdle == videos = <<>>

DlIdle == manifest = <<>> /\ failed = <<>> /\ audio = <<>>

EnvIdle == platform = <<>>

PvIdle == video_url = <<>> /\ keep_audio = FALSE /\ audio_path = None /\ temp_audio = FALSE

DrvIdle == transcripts = <<>> /\ calls = {} /\ FwIdle /\ BtIdle /\ PjIdle /\ DlIdle /\ EnvIdle
           /\ PvIdle

(***************************************************************************)
(* clean_repeated_lines (batch_transcribe_all_videos.py).                  *)
(***************************************************************************)
\* The same pattern with a greedy ".*" before the closing bracket.
TagPattern_GreedyTag ==
    <<Lit("["), Rep("digit", 1, TRUE), Lit(":"), Rep("digit", 1, TRUE), Lit("."),
      Rep("digit", 1, TRUE), Lit(" "), Lit("-"), Lit("-"), Lit(">"), Lit(" "),
      Rep("any", 0, TRUE), Lit("]"), Rep("space", 0, TRUE), Rep("any", 0, TRUE)>>

\* r"\[\d+:\d+\.\d+ --> .*?\]\s*(.*)"; the group is the last element.
TagPattern ==
    <<Lit("["), Rep("digit", 1, TRUE), Lit(":"), Rep("digit", 1, TRUE), Lit("."),
      Rep("digit", 1, TRUE), Lit(" "), Lit("-"), Lit("-"), Lit(">"), Lit(" "),
      Rep("any", 0, FALSE), Lit("]"), Rep("space", 0, TRUE), Rep("any", 0, TRUE)>>

\* m = re.match(...); text = m.group(1).strip() if m else line.strip()
ExtractContent(line) ==
    LET m == ReMatch(TagPattern, line, FALSE)
        n == Len(TagPattern)
    IN  IF m # <<>> THEN Strip(SubSeq(line, m[n], m[n + 1] - 1)) ELSE Strip(line)

\* text == last_text, with a comparison that is never true
SameAsLast_Never(t, last) == FALSE

\* text == last_text, dropping every blank line as well
SameAsLast_OrBlank(t, last) == last = Some(t) \/ t = <<>>

\* text == last_text
SameAsLast(t, last) == last = Some(t)

\* cleaned.append(line), appending the trimmed line instead
Kept_Trimmed(cl, line) == Append(cl, Strip(line))

\* cleaned.append(line)
Kept(cl, line) == Append(cl, line)

\* an iteration that keeps the line
CrlKeep ==
    /\ pc = "crl"
    /\ i <= Len(lines)
    /\ LET t == ExtractContent(lines[i]) IN
        /\ ~SameAsLast(t, last_text)
        /\ text' = t
        /\ cleaned' = Kept(cleaned, lines[i])
        /\ last_text' = Some(t)
    /\ i' = i + 1
    /\ UNCHANGED <<pc, lines, prev_line, dupVars, drvVars, ret, result, txt>>

\* an iteration that meets a repeat: continue
CrlSkip ==
    /\ pc = "crl"
    /\ i <= Len(lines)
    /\ LET t == ExtractContent(lines[i]) IN
        /\ SameAsLast(t, last_text)
        /\ text' = t
    /\ i' = i + 1
    /\ UNCHANGED <<pc, lines, cleaned, last_text, prev_line, dupVars, drvVars, ret, result, txt>>

\* return cleaned
CrlReturn ==
    /\ pc = "crl"
    /\ i > Len(lines)
    /\ pc' = "crl_done"
    /\ ret' = Some(cleaned)
    /\ UNCHANGED <<crlVars, text, prev_line, dupVars, drvVars, result, txt>>

(***************************************************************************)
(* Inputs of clean_repeated_lines: lines as readlines() gives them, with   *)
(* at most one newline, at the end.                                        *)
(***************************************************************************)
MaxLines == 3

TagArrow1 == <<"[", "0", "0", ":", "0", "1", ".", "0", "0", "0", " ", "-", "-", ">", " ", "0", "0", ":", "0", "2", ".", "5", "0", "0", "]">>
TagArrow2 == <<"[", "0", "0", ":", "0", "3", ".", "0", "0", "0", " ", "-", "-", ">", " ", "0", "0", ":", "0", "4", ".", "0", "0", "0", "]">>
TagCompact1 == <<"[", "0", ".", "0", "0", "-", "1", ".", "2", "0", "]">>
TagCompact2 == <<"[", "1", ".", "2", "0", "-", "2", ".", "5", "0", "]">>

\* tags the pattern does not match: hours in the time, a short arrow, no closing
\* bracket, letters for digits, no fraction
TagHours == <<"[", "0", "0", ":", "0", "0", ":", "0", "1", ".", "0", "0", "0", " ", "-", "-", ">", " ", "0", "0", ":", "0", "0", ":", "0", "2", ".", "0", "0", "0", "]">>
TagShortArrow == <<"[", "0", "0", ":", "0", "1", ".", "0", "0", "0", " ", "-", ">", " ", "0", "0", ":", "0", "2", ".", "5", "0", "0", "]">>
TagUnclosed == <<"[", "0", "0", ":", "0", "1", ".", "0", "0", "0", " ", "-", "-", ">", " ", "0", "0", ":", "0", "2", ".", "5", "0", "0">>
TagLetters == <<"[", "a", "b", ":", "0", "1", ".", "0", " ", "-", "-", ">", " ", "x", "]">>
TagNoFraction == <<"[", "1", ":", "2", " ", "-", "-", ">", " ", "3", "]">>

\* tags the pattern matches: nothing after the arrow, a bracket after the tag
TagEmptyEnd == <<"[", "1", ":", "2", ".", "3", " ", "-", "-", ">", " ", "]">>
TagTwoClosers == <<"[", "1", ":", "2", ".", "3", " ", "-", "-", ">", " ", "a", "]", "b", "]">>

Hi == <<"h", "i">>
Hello == <<"h", "e", "l", "l", "o">>
NiHaoShiJie == <<"u4F60", "u597D", "u4E16", "u754C">>   \* U+4F60 U+597D U+4E16 U+754C

\* the lines of the lists
SmallLines ==
    {TagArrow1 \o <<" ">> \o Hi \o <<"\n">>,
     TagArrow2 \o <<" ">> \o Hi \o <<"\n">>,
     Hi \o <<"\n">>,
     TagCompact1 \o <<" ">> \o Hi \o <<"\n">>,
     TagCompact2 \o <<" ">> \o Hi \o <<"\n">>,
     <<"\n">>,
     <<" ", " ", "\n">>,
     Hello \o <<"\n">>}

Tags ==
    {<<>>, TagArrow1, TagArrow2, TagCompact1, TagCompact2, TagHours, TagShortArrow,
     TagUnclosed, TagLetters, TagNoFraction, TagEmptyEnd, TagTwoClosers,
     <<" ">> \o TagArrow1}

\* every tag with every payload, with and without a space between and a newline
\* at the end
AllLines ==
    {tag \o sp \o pay \o nl :
        tag \in Tags, sp \in {<<>>, <<" ">>},
        pay \in {<<>>, Hi, Hello, NiHaoShiJie, <<"c", "]", " ", "d">>},
        nl \in {<<>>, <<"\n">>}}

LineLists ==
    UNION {[1..n -> SmallLines] : n \in 0..MaxLines} \cup {<<l>> : l \in AllLines}

InitClean ==
    /\ pc = "crl"
    /\ lines \in LineLists
    /\ i = 1
    /\ cleaned = <<>>
    /\ last_text = None
    /\ text = <<>>
    /\ ret = None
    /\ DupIdle
    /\ DrvIdle
    /\ SaveIdle

NextClean == CrlKeep \/ CrlSkip \/ CrlReturn

SpecClean == InitClean /\ [][NextClean]_vars

(***************************************************************************)
(* Claims about clean_repeated_lines.                                      *)
(***************************************************************************)
RECURSIVE IsSubsequence(_, _)
IsSubsequence(a, b) ==
    \/ a = <<>>
    \/ /\ b # <<>>
       /\ IF Head(a) = Head(b) THEN IsSubsequence(Tail(a), Tail(b))
          ELSE IsSubsequence(a, Tail(b))

IsDigits(s) == s # <<>> /\ \A j \in 1..Len(s) : s[j] \in Digits

ArrowText == <<" ", "-", "-", ">", " ">>

\* c is the position of a "]" that closes a tag "[<digits>:<digits>.<digits> -->
\* anything]" with which the line starts
ClosesArrowTag(line, c) ==
    /\ c \in 1..Len(line)
    /\ line[c] = "]"
    /\ line[1] = "["
    /\ \E a \in 3..c :
        /\ line[a] = ":"
        /\ IsDigits(SubSeq(line, 2, a - 1))
        /\ \E b \in (a + 2)..c :
            /\ line[b] = "."
            /\ IsDigits(SubSeq(line, a + 1, b - 1))
            /\ \E e \in (b + 2)..(c - 5) :
                /\ line[e] = " "
                /\ SubSeq(line, e, e + 4) = ArrowText
                /\ IsDigits(SubSeq(line, b + 1, e - 1))

HasArrowTag(line) == \E c \in 1..Len(line) : ClosesArrowTag(line, c)

\* The content of a line as the specification words it: the text after the closing
\* bracket of a leading arrow tag, trimmed; the whole line, trimmed, otherwise.
ArrowContent(line) ==
    IF HasArrowTag(line)
    THEN LET c == SetMin({j \in 1..Len(line) : ClosesArrowTag(line, j)})
         IN  Strip(SubSeq(line, c + 1, Len(line)))
    ELSE Strip(line)

IsTimestamp(s) == s # <<>> /\ \A j \in 1..Len(s) : s[j] \in Digits \cup {":", "."}

\* c closes a leading timestamp tag of either form: "[<start> --> <end>]" or
\* "[<start>-<end>]"
ClosesAnyTag(line, c) ==
    /\ c \in 1..Len(line)
    /\ line[c] = "]"
    /\ line[1] = "["
    /\ \E a \in 3..c :
        /\ line[a] \in {" ", "-"}
        /\ IsTimestamp(SubSeq(line, 2, a - 1))
        /\ \E b \in (a + 1)..(c - 1) :
            /\ SubSeq(line, a, b - 1) \in {ArrowText, <<"-">>}
            /\ IsTimestamp(SubSeq(line, b, c - 1))

\* The text payload of a line whatever its tag: arrow form, compact form or none.
Payload(line) ==
    IF \E c \in 1..Len(line) : ClosesAnyTag(line, c)
    THEN LET c == SetMin({j \in 1..Len(line) : ClosesAnyTag(line, j)})
         IN  Strip(SubSeq(line, c + 1, Len(line)))
    ELSE Strip(line)

\* the first line of every maximal run of lines of equal content, cs[j] being the
\* content of ls[j]
RECURSIVE RunHeadsFrom(_, _, _)
RunHeadsFrom(ls, cs, j) ==
    IF j > Len(ls) THEN <<>>
    ELSE IF j = 1 \/ cs[j] # cs[j - 1] THEN <<ls[j]>> \o RunHeadsFrom(ls, cs, j + 1)
    ELSE RunHeadsFrom(ls, cs, j + 1)

RunHeads(ls, cs) == RunHeadsFrom(ls, cs, 1)

\* C1: at every point of the loop, and in the list returned, the kept lines are a
\* subsequence of the input lines read so far, each the raw input line.
C1_OutputIsSubsequence ==
    /\ pc \in {"crl", "crl_done"} => IsSubsequence(cleaned, SubSeq(lines, 1, i - 1))
    /\ pc = "crl_done" => ret = Some(cleaned) /\ IsSubsequence(cleaned, lines)

\* a run that dropped a line and kept a tagged line and a line with a newline
C1_Witness ==
    /\ pc = "crl_done"
    /\ Len(cleaned) >= 2
    /\ Len(cleaned) < Len(lines)
    /\ \E j \in 1..Len(cleaned) : HasArrowTag(cleaned[j])

\* C2 as stated: an input that is one run of N > 1 lines of identical payload,
\* whatever tag each line carries, comes back as its first line alone.
C2_AnyTagRunCollapses ==
    (/\ pc = "crl_done"
     /\ Len(lines) > 1
     /\ \A j \in 1..Len(lines) : Payload(lines[j]) = Payload(lines[1]))
    => cleaned = <<lines[1]>>

\* C2 as amended: the runs are those of equal extracted content (the text after a
\* leading arrow tag, trimmed, or else the whole line trimmed, a compact tag
\* included); the output is the first line of every maximal run.
C2_ContentRunCollapses ==
    pc = "crl_done" =>
        cleaned = RunHeads(lines, [j \in 1..Len(lines) |-> ArrowContent(lines[j])])

\* a run of two different raw lines of equal content collapsed
C2_Witness ==
    /\ pc = "crl_done"
    /\ Len(cleaned) < Len(lines)
    /\ \E j \in 1..(Len(lines) - 1) :
        /\ lines[j] # lines[j + 1]
        /\ ArrowContent(lines[j]) = ArrowContent(lines[j + 1])
        /\ HasArrowTag(lines[j]) /\ ~HasArrowTag(lines[j + 1])

\* C3: no two adjacent kept lines have equal content, blank lines included.
C3_NoAdjacentEqualContent ==
    pc \in {"crl", "crl_done"} =>
        \A j \in 1..(Len(cleaned) - 1) :
            ArrowContent(cleaned[j]) # ArrowContent(cleaned[j + 1])

\* adjacent blank lines in the input, one blank line in the output
C3_Witness ==
    /\ pc = "crl_done"
    /\ \E j \in 1..(Len(lines) - 1) :
        /\ ArrowContent(lines[j]) = <<>>
        /\ ArrowContent(lines[j + 1]) = <<>>
        /\ lines[j] # lines[j + 1]
    /\ Cardinality({j \in 1..Len(cleaned) : ArrowContent(cleaned[j]) = <<>>}) = 1

\* C4: an input without adjacent lines of equal content is returned unchanged.
C4_NoRepeatUnchanged ==
    (/\ pc = "crl_done"
     /\ \A j \in 1..(Len(lines) - 1) :
            ArrowContent(lines[j]) # ArrowContent(lines[j + 1]))
    => cleaned = lines

\* three lines, the first and third of equal content, all kept
C4_Witness ==
    /\ pc = "crl_done"
    /\ Len(lines) = 3
    /\ ArrowContent(lines[1]) = ArrowContent(lines[3])
    /\ ArrowContent(lines[1]) # ArrowContent(lines[2])
    /\ ArrowContent(lines[2]) = <<>>
    /\ cleaned = lines

\* C5: the content computed for the line just read is the text after the closing
\* bracket of a leading arrow tag, trimmed, and the whole line trimmed for every
\* other line; the two examples of the specification.
C5_ExtractContent ==
    (pc \in {"crl", "crl_done"} /\ i > 1) =>
        /\ text = ArrowContent(lines[i - 1])
        /\ lines[i - 1] = TagArrow1 \o <<" ">> \o NiHaoShiJie => text = NiHaoShiJie
        /\ lines[i - 1] = Hello => text = Hello
        /\ ~HasArrowTag(lines[i - 1]) => text = Strip(lines[i - 1])

\* a line whose tag is followed by a second closing bracket, and a malformed tag
C5_Witness ==
    /\ pc = "crl"
    /\ i = 2
    /\ \/ /\ lines[1] = TagTwoClosers \o <<" ">> \o Hi \o <<"\n">>
          /\ text = <<"b", "]", " ">> \o Hi
       \/ /\ lines[1] = TagHours \o <<" ">> \o Hi
          /\ text = lines[1]

(***************************************************************************)
(* _is_duplicate_line (youtube_transcribe.py).                             *)
(*                                                                         *)
(* The threshold is the fraction <<num, den>>.  len(shorter) / len(longer) *)
(* > threshold is a comparison of floats; for the lengths and thresholds   *)
(* here the quotient and the threshold are the floats nearest to the exact *)
(* values and compare as the exact values do: 9 / 10 > 0.9 is False.       *)
(***************************************************************************)
DefaultThreshold == <<9, 10>>

\* len(shorter) / len(longer) >= threshold
RatioAbove_OrEqual(s, l, th) == s * th[2] >= th[1] * l

\* len(shorter) / len(longer) > threshold
RatioAbove(s, l, th) == s * th[2] > th[1] * l

\* the same with the first line always taken for the shorter
IsDuplicateLine_FirstShorter(l1, l2, th) ==
    IF l1 = l2 THEN TRUE
    ELSE LET clean1 == KeepAlnum(l1)
             clean2 == KeepAlnum(l2)
         IN  IF clean1 = <<>> \/ clean2 = <<>> THEN FALSE
             ELSE IF clean1 = clean2 THEN TRUE
             ELSE Contains(clean2, clean1)
                    /\ RatioAbove(Len(clean1), Len(clean2), th)

IsDuplicateLine(l1, l2, th) ==
    IF l1 = l2 THEN TRUE
    ELSE LET clean1 == KeepAlnum(l1)
             clean2 == KeepAlnum(l2)
         IN  IF clean1 = <<>> \/ clean2 = <<>> THEN FALSE
             ELSE IF clean1 = clean2 THEN TRUE
             ELSE LET shorter == IF Len(clean1) < Len(clean2) THEN clean1 ELSE clean2
                      longer  == IF Len(clean1) < Len(clean2) THEN clean2 ELSE clean1
                  IN  Contains(longer, shorter)
                        /\ RatioAbove(Len(shorter), Len(longer), th)

\* a call of _is_duplicate_line(line1, line2, threshold)
DupCall ==
    /\ pc = "dup"
    /\ ret' = Some(IsDuplicateLine(line1, line2, threshold))
    /\ pc' = "dup_done"
    /\ UNCHANGED <<crlVars, text, dupVars, drvVars, saveVars>>

\* Inputs: the pieces of a stem of MaxStem letters that start at its first or
\* second letter, with and without punctuation and whitespace, the stem with a
\* letter missing, and strings without a letter.
MaxStem == 11

Stem == SubSeq(LowerSeq, 1, MaxStem)

DupTexts ==
    {SubSeq(Stem, a, b) : a \in 1..2, b \in 1..MaxStem}
    \cup {<<"!">> \o SubSeq(Stem, 1, b) \o <<" ">> : b \in (MaxStem - 2)..MaxStem}
    \cup {SubSeq(Stem, 1, 4) \o <<",", " ">> \o SubSeq(Stem, 5, b) :
            b \in (MaxStem - 2)..MaxStem}
    \cup {SubSeq(Stem, 1, 4) \o SubSeq(Stem, 6, MaxStem)}
    \cup {<<>>, <<"!">>, <<"u3002", " ">>}

Thresholds == {DefaultThreshold, <<1, 2>>, <<0, 1>>, <<1, 1>>}

InitDup ==
    /\ pc = "dup"
    /\ line1 \in DupTexts
    /\ line2 \in DupTexts
    /\ threshold \in Thresholds
    /\ ret = None
    /\ text = <<>>
    /\ CrlIdle
    /\ SaveIdle
    /\ DrvIdle

NextDup == DupCall

SpecDup == InitDup /\ [][NextDup]_vars

\* C6: the value returned is true exactly when the lines are equal, or both have
\* an alphanumeric character and their stripped forms are equal or the shorter is
\* a contiguous piece of the longer with len(shorter)/len(longer) > t; with
\* t = 0.9, a piece of length 8 or 9 of a form of length 10 is no duplicate.
C6_IsDuplicateLine ==
    pc = "dup_done" =>
        LET a == KeepAlnum(line1)
            b == KeepAlnum(line2)
            near(s, l) ==
                /\ Len(s) <= Len(l)
                /\ Contains(l, s)
                /\ Len(s) * threshold[2] > threshold[1] * Len(l)
        IN  /\ ret = Some(\/ line1 = line2
                          \/ /\ a # <<>>
                             /\ b # <<>>
                             /\ (a = b \/ near(a, b) \/ near(b, a)))
            /\ (/\ threshold = DefaultThreshold
                /\ Len(a) \in {8, 9}
                /\ Len(b) = 10) => ret = Some(FALSE)

\* the shorter form, 9 letters, lies in the longer, 10 letters: not a duplicate
C6_Witness ==
    /\ pc = "dup_done"
    /\ threshold = DefaultThreshold
    /\ Len(KeepAlnum(line1)) = 9
    /\ Len(KeepAlnum(line2)) = 10
    /\ Contains(KeepAlnum(line2), KeepAlnum(line1))
    /\ ret = Some(FALSE)

(***************************************************************************)
(* _clean_subtitle_markers (youtube_transcribe.py).                        *)
(***************************************************************************)
ZiMuYou == <<"u5B57", "u5E55", "u7531">>   \* U+5B57 U+5E55 U+7531
SheQunTiGong == <<"u793E", "u7FA4", "u63D0", "u4F9B">>   \* U+793E U+7FA4 U+63D0 U+4F9B
FanYi == <<"u7FFB", "u8BD1">>   \* U+7FFB U+8BD1
JiaoDui == <<"u6821", "u5BF9">>   \* U+6821 U+5BF9
ZiMuZhiZuo == <<"u5B57", "u5E55", "u5236", "u4F5C">>   \* U+5B57 U+5E55 U+5236 U+4F5C
QingDingYue == <<"u8ACB", "u8A02", "u95B1">>   \* U+8ACB U+8A02 U+95B1
PinDao == <<"u983B", "u9053">>   \* U+983B U+9053
XiHuan == <<"u559C", "u6B61">>   \* U+559C U+6B61
QingAnZan == <<"u8ACB", "u6309", "u8B9A">>   \* U+8ACB U+6309 U+8B9A
JiDeKaiQi == <<"u8A18", "u5F97", "u958B", "u555F">>   \* U+8A18 U+5F97 U+958B U+555F
XiaoLingDang == <<"u5C0F", "u9234", "u943A">>   \* U+5C0F U+9234 U+943A
YinYue == <<"u97F3", "u6A02">>   \* U+97F3 U+6A02
ZhangSheng == <<"u638C", "u8072">>   \* U+638C U+8072
XiaoSheng == <<"u7B11", "u8072">>   \* U+7B11 U+8072
DaJiaHao == <<"u5927", "u5BB6", "u597D">>   \* U+5927 U+5BB6 U+597D
JinTian == <<"u4ECA", "u5929">>   \* U+4ECA U+5929
JinTianTianQi == <<"u4ECA", "u5929", "u5929", "u6C23">>   \* U+4ECA U+5929 U+5929 U+6C23
AmaraOrg == <<"A", "m", "a", "r", "a", ".", "o", "r", "g">>
SubtitlesBy == <<"S", "u", "b", "t", "i", "t", "l", "e", "s", " ", "b", "y">>
TranslatedBy == <<"T", "r", "a", "n", "s", "l", "a", "t", "e", "d", " ", "b", "y">>

AnyLazy == <<Rep("any", 0, FALSE)>>      \* .*?
AnyGreedy == <<Rep("any", 0, TRUE)>>     \* .*
Spaces == <<Rep("space", 0, TRUE)>>      \* \s*

\* the list patterns, in its order
Patterns ==
    <<Lits(ZiMuYou) \o Spaces \o Lits(AmaraOrg) \o Spaces \o Lits(SheQunTiGong),
      Lits(ZiMuYou) \o AnyLazy \o Lits(SheQunTiGong),
      Lits(FanYi) \o AnyLazy \o Lits(JiaoDui) \o AnyGreedy,
      Lits(ZiMuZhiZuo) \o AnyGreedy,
      Lits(SubtitlesBy) \o AnyGreedy,
      Lits(TranslatedBy) \o AnyGreedy,
      Lits(QingDingYue) \o AnyGreedy \o Lits(PinDao),
      Lits(XiHuan) \o AnyGreedy \o Lits(QingAnZan),
      Lits(JiDeKaiQi \o XiaoLingDang),
      Lits(<<"[">> \o YinYue \o <<"]">>),
      Lits(<<"[">> \o ZhangSheng \o <<"]">>),
      Lits(<<"[">> \o XiaoSheng \o <<"]">>),
      Lits(<<"(">> \o YinYue \o <<")">>),
      Lits(<<"(">> \o ZhangSheng \o <<")">>),
      Lits(<<"(">> \o XiaoSheng \o <<")">>)>>

\* for pattern in patterns[j:]: text = re.sub(pattern, repl, text, flags=re.IGNORECASE)
RECURSIVE SubPatterns(_, _, _)
SubPatterns(t, j, repl) ==
    IF j > Len(Patterns) THEN t
    ELSE SubPatterns(ReSub(Patterns[j], repl, t, TRUE), j + 1, repl)

\* the function with a space as the replacement
CleanSubtitleMarkers_SpaceForMatch(t) == Strip(SubPatterns(t, 1, <<" ">>))

\* the function without its last strip()
CleanSubtitleMarkers_NoStrip(t) == SubPatterns(t, 1, <<>>)

CleanSubtitleMarkers(t) == Strip(SubPatterns(t, 1, <<>>))

\* a call of _clean_subtitle_markers(text)
MarkersCall ==
    /\ pc = "csm"
    /\ ret' = Some(CleanSubtitleMarkers(text))
    /\ pc' = "csm_done"
    /\ UNCHANGED <<crlVars, text, dupVars, drvVars, saveVars>>

\* Inputs: up to MaxFrags fragments in a row.
MaxFrags == 3

Fragments ==
    {DaJiaHao, JinTian,
     <<"[">> \o YinYue \o <<"]">>, <<"(">> \o XiaoSheng \o <<")">>,
     <<"[">> \o SubSeq(YinYue, 1, 1), SubSeq(YinYue, 2, 2) \o <<"]">>,
     JiDeKaiQi, XiaoLingDang,
     <<" ">>, <<"\n">>,
     <<"S", "U", "B", "T", "I", "T", "L", "E", "S", " ", "b", "y">>}

RECURSIVE Concat(_)
Concat(fs) == IF fs = <<>> THEN <<>> ELSE Head(fs) \o Concat(Tail(fs))

MarkerTexts == {Concat(fs) : fs \in UNION {[1..n -> Fragments] : n \in 0..MaxFrags}}

\* Texts with runs of blank lines between two lines, and whitespace at the ends.
BlankRunTexts ==
    {DaJiaHao \o <<"\n", "\n", "\n">> \o JinTian,
     <<"a", "\n", "\n", "\n", "\n", "b">>,
     <<" ", "\n">> \o DaJiaHao \o <<"[">> \o YinYue \o <<"]", "\n", "\n", "\n", "\n">>
        \o JinTian \o <<"\n", " ">>,
     DaJiaHao \o <<"\n", "[">> \o YinYue \o <<"]", "\n", "(">> \o XiaoSheng
        \o <<")", "\n">> \o JinTian}

InitMarkers ==
    /\ pc = "csm"
    /\ text \in MarkerTexts \cup BlankRunTexts
    /\ ret = None
    /\ CrlIdle
    /\ DupIdle
    /\ DrvIdle
    /\ SaveIdle

NextMarkers == MarkersCall

SpecMarkers == InitMarkers /\ [][NextMarkers]_vars

\* re.search(pattern, s, re.IGNORECASE) finds nothing, for every pattern of the list
NoBoilerplate(s) == \A j \in 1..Len(Patterns) : ~ReFound(Patterns[j], s, TRUE)

\* C9: the text returned contains no substring that matches a pattern of the list.
C9_NoBoilerplateLeft == pc = "csm_done" => NoBoilerplate(ret[1])

Annotations ==
    {<<"[">> \o w \o <<"]">> : w \in {YinYue, ZhangSheng, XiaoSheng}}
    \cup {<<"(">> \o w \o <<")">> : w \in {YinYue, ZhangSheng, XiaoSheng}}

\* C10: when the text is pre + annotation + post, the annotation inside a line,
\* and pre + post holds no boilerplate, the text returned is pre + post, every
\* character kept and in order and nothing inserted, less the whitespace at the
\* two ends of the whole block, which the function trims.
C10_AnnotationRemovedInPlace ==
    pc = "csm_done" =>
        /\ \A a \in 2..Len(text) : \A b \in a..(Len(text) - 1) :
            LET pre  == SubSeq(text, 1, a - 1)
                post == SubSeq(text, b + 1, Len(text))
            IN  (/\ SubSeq(text, a, b) \in Annotations
                 /\ text[a - 1] # "\n"
                 /\ text[b + 1] # "\n"
                 /\ NoBoilerplate(pre \o post))
                => /\ ret = Some(Strip(pre \o post))
                   /\ ~(IsSpace(text[1]) \/ IsSpace(text[Len(text)]))
                        => ret = Some(pre \o post)
        /\ text = DaJiaHao \o <<"[">> \o YinYue \o <<"]">> \o JinTian
            => ret = Some(DaJiaHao \o JinTian)

\* the example of the specification
C10_Witness ==
    /\ pc = "csm_done"
    /\ text = DaJiaHao \o <<"[">> \o YinYue \o <<"]">> \o JinTian
    /\ ret = Some(DaJiaHao \o JinTian)

\* s has no whitespace at its two ends
IsTrimmed(s) == s = <<>> \/ (~IsSpace(s[1]) /\ ~IsSpace(s[Len(s)]))

\* s holds a run of two or more blank lines: three newline characters in a row
HasBlankRun(s) ==
    \E j \in 1..(Len(s) - 2) : s[j] = "\n" /\ s[j + 1] = "\n" /\ s[j + 2] = "\n"

\* r is s less the whitespace at the two ends of s
IsTrimOf(r, s) ==
    /\ IsTrimmed(r)
    /\ \E a \in 0..Len(s) : \E b \in a..Len(s) :
        /\ SubSeq(s, a + 1, b) = r
        /\ \A j \in (1..a) \cup ((b + 1)..Len(s)) : IsSpace(s[j])

\* C11 as stated: the text returned holds no run of two or more blank lines,
\* and no whitespace at its two ends.
C11_CollapsesAndTrims ==
    pc = "csm_done" => ~HasBlankRun(ret[1]) /\ IsTrimmed(ret[1])

\* C11 as amended: the text returned has no whitespace at its two ends, no
\* more lines than the text given, and, when the text given holds no
\* boilerplate, is that text less the whitespace at its two ends: the runs of
\* blank lines inside it are left as they are.
C11_TrimsOnly ==
    pc = "csm_done" =>
        /\ IsTrimmed(ret[1])
        /\ Len(Split(ret[1])) <= Len(Split(text))
        /\ NoBoilerplate(text) => IsTrimOf(ret[1], text)

\* a text with whitespace at its ends and two blank lines inside, returned
\* trimmed with the two blank lines
C11_Witness ==
    /\ pc = "csm_done"
    /\ ~IsTrimmed(text)
    /\ HasBlankRun(text)
    /\ ret # Some(text)
    /\ IsTrimmed(ret[1])
    /\ HasBlankRun(ret[1])

(***************************************************************************)
(* _remove_consecutive_duplicates and save_transcript                      *)
(* (youtube_transcribe.py).                                                *)
(***************************************************************************)
\* the loop of _remove_consecutive_duplicates from line j of ls on, cl being
\* cleaned and prev being prev_line
RECURSIVE RcdLoop(_, _, _, _)
RcdLoop(ls, j, cl, prev) ==
    IF j > Len(ls) THEN cl
    ELSE LET line == Strip(ls[j]) IN
        IF line = <<>>
        THEN IF prev # Some(<<>>)
             THEN RcdLoop(ls, j + 1, Append(cl, <<>>), Some(<<>>))
             ELSE RcdLoop(ls, j + 1, cl, prev)
        ELSE IF prev = None \/ ~IsDuplicateLine(line, prev[1], DefaultThreshold)
             THEN RcdLoop(ls, j + 1, Append(cl, line), Some(line))
             ELSE RcdLoop(ls, j + 1, cl, prev)

\* the loop with every blank line kept as it is ("continue" without the test
\* of prev_line and without the strip)
RECURSIVE RcdLoop_KeepsBlankLines(_, _, _, _)
RcdLoop_KeepsBlankLines(ls, j, cl, prev) ==
    IF j > Len(ls) THEN cl
    ELSE LET line == Strip(ls[j]) IN
        IF line = <<>>
        THEN RcdLoop_KeepsBlankLines(ls, j + 1, Append(cl, ls[j]), Some(<<>>))
        ELSE IF prev = None \/ ~IsDuplicateLine(line, prev[1], DefaultThreshold)
             THEN RcdLoop_KeepsBlankLines(ls, j + 1, Append(cl, line), Some(line))
             ELSE RcdLoop_KeepsBlankLines(ls, j + 1, cl, prev)

RemoveConsecutiveDuplicates_KeepsBlankLines(t) ==
    Join(RcdLoop_KeepsBlankLines(Split(t), 1, <<>>, None))

\* the function with a loop that starts at the second line
RemoveConsecutiveDuplicates_FromSecondLine(t) == Join(RcdLoop(Split(t), 2, <<>>, None))

RemoveConsecutiveDuplicates(t) == Join(RcdLoop(Split(t), 1, <<>>, None))

\* re.sub(r'\n{3,}', '\n\n', text)
CollapseNewlines(t) == ReSub(<<Rep("nl", 3, TRUE)>>, <<"\n", "\n">>, t, FALSE)

\* lines 140-151 of save_transcript: the text written for a text
TextPipeline(t) ==
    Strip(CollapseNewlines(RemoveConsecutiveDuplicates(CleanSubtitleMarkers(t))))

HasSegments == result.kind = "segments"     \* 'segments' in result

\* a segment that is kept: lines.append(text); prev_line = text
SaveSegKeep ==
    /\ pc = "save"
    /\ HasSegments
    /\ i <= Len(result.segments)
    /\ LET t == Strip(result.segments[i]) IN
        /\ t # <<>>
        /\ IF prev_line = None THEN TRUE
           ELSE ~IsDuplicateLine(t, prev_line[1], DefaultThreshold)
        /\ lines' = Append(lines, t)
        /\ prev_line' = Some(t)
    /\ i' = i + 1
    /\ UNCHANGED <<pc, cleaned, last_text, text, dupVars, drvVars, ret, result, txt>>

\* a segment whose trimmed text is empty
SaveSegEmpty ==
    /\ pc = "save"
    /\ HasSegments
    /\ i <= Len(result.segments)
    /\ Strip(result.segments[i]) = <<>>
    /\ i' = i + 1
    /\ UNCHANGED <<pc, lines, cleaned, last_text, text, prev_line, dupVars, drvVars, ret,
                   result, txt>>

\* a segment that repeats prev_line, with prev_line set to the dropped text
SaveSegDuplicate_UpdatesPrev ==
    /\ pc = "save"
    /\ HasSegments
    /\ i <= Len(result.segments)
    /\ LET t == Strip(result.segments[i]) IN
        /\ t # <<>>
        /\ prev_line # None
        /\ IsDuplicateLine(t, prev_line[1], DefaultThreshold)
        /\ prev_line' = Some(t)
    /\ i' = i + 1
    /\ UNCHANGED <<pc, lines, cleaned, last_text, text, dupVars, drvVars, ret, result, txt>>

\* a segment that repeats prev_line
SaveSegDuplicate ==
    /\ pc = "save"
    /\ HasSegments
    /\ i <= Len(result.segments)
    /\ LET t == Strip(result.segments[i]) IN
        /\ t # <<>>
        /\ prev_line # None
        /\ IsDuplicateLine(t, prev_line[1], DefaultThreshold)
    /\ i' = i + 1
    /\ UNCHANGED <<pc, lines, cleaned, last_text, text, prev_line, dupVars, drvVars, ret,
                   result, txt>>

\* text = '\n'.join(lines)
SaveJoin ==
    /\ pc = "save"
    /\ HasSegments
    /\ i > Len(result.segments)
    /\ text' = Join(lines)
    /\ pc' = "save_markers"
    /\ UNCHANGED <<crlVars, dupVars, drvVars, saveVars, ret>>

\* text = result['text']
SaveText ==
    /\ pc = "save"
    /\ ~HasSegments
    /\ text' = result.text
    /\ pc' = "save_markers"
    /\ UNCHANGED <<crlVars, dupVars, drvVars, saveVars, ret>>

\* text = self._clean_subtitle_markers(text)
SaveCleanMarkers ==
    /\ pc = "save_markers"
    /\ text' = CleanSubtitleMarkers(text)
    /\ pc' = "save_dedupe"
    /\ UNCHANGED <<crlVars, dupVars, drvVars, saveVars, ret>>

\* text = self._remove_consecutive_duplicates(text)
SaveRemoveDuplicates ==
    /\ pc = "save_dedupe"
    /\ text' = RemoveConsecutiveDuplicates(text)
    /\ pc' = "save_collapse"
    /\ UNCHANGED <<crlVars, dupVars, drvVars, saveVars, ret>>

\* text = re.sub(r'\n{3,}', '\n\n', text)
SaveCollapse ==
    /\ pc = "save_collapse"
    /\ text' = CollapseNewlines(text)
    /\ pc' = "save_write"
    /\ UNCHANGED <<crlVars, dupVars, drvVars, saveVars, ret>>

\* f.write(text.strip())
SaveWrite ==
    /\ pc = "save_write"
    /\ txt' = Some(Strip(text))
    /\ pc' = "save_done"
    /\ UNCHANGED <<crlVars, text, dupVars, drvVars, prev_line, result, ret>>

\* Inputs of save_transcript: a result with up to MaxSegs segments, or a result
\* without segments whose text has up to MaxTextLines lines.
MaxSegs == 3

MaxTextLines == 3

Long11 == SubSeq(LowerSeq, 1, 8) \o ZiMuYou              \* 11 letters
Long10 == SubSeq(LowerSeq, 1, 8) \o SubSeq(ZiMuYou, 1, 2) \* its first 10

SegTexts ==
    {DaJiaHao, <<" ">> \o DaJiaHao \o <<" ">>, JinTianTianQi, <<" ">>, Long10, Long11}

TextLines ==
    {Long11, Long10, AmaraOrg \o SheQunTiGong, <<>>, <<" ">> \o DaJiaHao,
     DaJiaHao \o <<"u3002">>}

Results ==
    {[kind |-> "segments", segments |-> ss, text |-> <<>>] :
        ss \in UNION {[1..n -> SegTexts] : n \in 0..MaxSegs}}
    \cup {[kind |-> "text", segments |-> <<>>, text |-> Join(ls)] :
        ls \in UNION {[1..n -> TextLines] : n \in 1..MaxTextLines}}

\* Results whose text holds runs of blank lines, blank lines of whitespace, and
\* whitespace at the two ends.
BlankRunResults ==
    {[kind |-> "text", segments |-> <<>>, text |-> t] :
        t \in BlankRunTexts \cup
              {<<"\n", "\n">> \o DaJiaHao \o <<"\n", " ", "\n", "\n", " ", "\n">>
                  \o JinTian \o <<"\n", "\n">>,
               <<"\n", "\n", "\n", "\n">>}}
    \cup {[kind |-> "segments", segments |-> ss, text |-> <<>>] :
        ss \in {<<<<"a", "\n", "\n", "\n", "\n", "b">>>>,
                <<<<"[">> \o YinYue \o <<"]">>, DaJiaHao \o <<"\n">>,
                  <<"(">> \o XiaoSheng \o <<")">>, <<"\n">> \o JinTian>>}}

InitSave ==
    /\ pc = "save"
    /\ result \in Results \cup BlankRunResults
    /\ lines = <<>>
    /\ prev_line = None
    /\ i = 1
    /\ text = <<>>
    /\ txt = None
    /\ cleaned = <<>>
    /\ last_text = None
    /\ ret = None
    /\ DupIdle
    /\ DrvIdle

NextSave ==
    \/ SaveSegKeep
    \/ SaveSegEmpty
    \/ SaveSegDuplicate
    \/ SaveJoin
    \/ SaveText
    \/ SaveCleanMarkers
    \/ SaveRemoveDuplicates
    \/ SaveCollapse
    \/ SaveWrite

SpecSave == InitSave /\ [][NextSave]_vars

\* no two adjacent lines of t of equal content: equal when trimmed, or equal when
\* reduced to their alphanumeric characters
NoAdjacentEqualLines(t) ==
    LET ls == Split(t) IN
        \A j \in 1..(Len(ls) - 1) :
            /\ Strip(ls[j]) # Strip(ls[j + 1])
            /\ KeepAlnum(ls[j]) # KeepAlnum(ls[j + 1])

\* no two adjacent lines of t that the pipeline's own test, _is_duplicate_line on
\* the trimmed lines, takes for duplicates
NoAdjacentNearDuplicates(t) ==
    LET ls == Split(t) IN
        \A j \in 1..(Len(ls) - 1) :
            ~IsDuplicateLine(Strip(ls[j + 1]), Strip(ls[j]), DefaultThreshold)

\* C7 as stated: for a text without adjacent duplicate lines (lines of equal
\* content) and without boilerplate, the pipeline applied to what it wrote gives
\* what it wrote.
C7_IdempotentOnEqualFree ==
    (/\ pc = "save_done"
     /\ ~HasSegments
     /\ NoBoilerplate(result.text)
     /\ NoAdjacentEqualLines(result.text))
    => TextPipeline(txt[1]) = txt[1]

\* C7 as amended: the same for a text none of whose adjacent lines is a duplicate
\* or a near-duplicate of the other by _is_duplicate_line.
C7_IdempotentOnDuplicateFree ==
    (/\ pc = "save_done"
     /\ ~HasSegments
     /\ NoBoilerplate(result.text)
     /\ NoAdjacentNearDuplicates(result.text))
    => TextPipeline(txt[1]) = txt[1]

\* a clean text of three lines that the pipeline changed, by trimming a line
C7_Witness ==
    /\ pc = "save_done"
    /\ ~HasSegments
    /\ NoBoilerplate(result.text)
    /\ NoAdjacentNearDuplicates(result.text)
    /\ Len(Split(result.text)) = 3
    /\ txt # Some(result.text)
    /\ Len(Split(txt[1])) = 3

\* a line of whitespace only
IsBlank(l) == \A j \in 1..Len(l) : IsSpace(l[j])

\* C12: the text written holds no two blank lines one after the other (so no
\* run of three or more newline characters) and no whitespace at its two ends,
\* whatever the recognizer result; the text a, four newlines, b is written as
\* a, two newlines, b.
C12_NoBlankRunWritten ==
    pc = "save_done" =>
        /\ LET ls == Split(txt[1]) IN
            \A j \in 1..(Len(ls) - 1) : ~(IsBlank(ls[j]) /\ IsBlank(ls[j + 1]))
        /\ ~HasBlankRun(txt[1])
        /\ IsTrimmed(txt[1])
        /\ result.text = <<"a", "\n", "\n", "\n", "\n", "b">>
            => txt = Some(<<"a", "\n", "\n", "b">>)

\* the example of the specification
C12_Witness ==
    /\ pc = "save_done"
    /\ result.text = <<"a", "\n", "\n", "\n", "\n", "b">>
    /\ txt = Some(<<"a", "\n", "\n", "b">>)

\* C8: in the loop over the segments, the segment visited is skipped when its
\* trimmed text is empty, dropped with prev_line unchanged when it is a
\* near-duplicate (threshold 0.9) of the last kept line, and appended and made
\* prev_line otherwise; prev_line is the last kept line; the three segments of
\* the example give two lines.
C8_SegmentAssembly ==
    /\ [](pc = "save" /\ HasSegments =>
            prev_line = IF lines = <<>> THEN None ELSE Some(lines[Len(lines)]))
    /\ [][(pc = "save" /\ HasSegments /\ i' = i + 1) =>
            LET t == Strip(result.segments[i]) IN
                IF t = <<>> \/ (lines # <<>>
                                 /\ IsDuplicateLine(t, lines[Len(lines)], <<9, 10>>))
                THEN lines' = lines /\ prev_line' = prev_line
                ELSE lines' = Append(lines, t) /\ prev_line' = Some(t)]_vars
    /\ []((pc = "save_done"
            /\ result.segments = <<DaJiaHao, DaJiaHao, JinTianTianQi>>)
          => txt = Some(DaJiaHao \o <<"\n">> \o JinTianTianQi))

\* the example's segments, written as two lines
C8_Witness ==
    /\ pc = "save_done"
    /\ result.segments = <<DaJiaHao, DaJiaHao, JinTianTianQi>>
    /\ txt = Some(DaJiaHao \o <<"\n">> \o JinTianTianQi)

(***************************************************************************)
(* transcribe_fw.py: one process per shard, all on the same AUDIO_DIR and  *)
(* OUT_DIR.  A worker is named by its SHARD_ID.  A file of a directory is  *)
(* its name, a str; the content of a text file is a str.                   *)
(***************************************************************************)
\* The order of str comparison on the characters of the file names.
CharOrder == <<".">> \o <<"0", "1", "2", "3", "4", "5", "6", "7", "8", "9">>
                \o UpperSeq \o LowerSeq

Ord(c) == CHOOSE n \in 1..Len(CharOrder) : CharOrder[n] = c

\* a < b on str
RECURSIVE StrLess(_, _)
StrLess(a, b) ==
    IF b = <<>> THEN FALSE
    ELSE IF a = <<>> THEN TRUE
    ELSE IF Head(a) = Head(b) THEN StrLess(Tail(a), Tail(b))
    ELSE Ord(Head(a)) < Ord(Head(b))

\* sorted(S), S a set of names: the name at position k has k - 1 names before it
Sorted(S) ==
    [k \in 1..Cardinality(S) |->
        CHOOSE x \in S : Cardinality({y \in S : StrLess(y, x)}) = k - 1]

\* name matches the pattern "*" + suffix of Path.glob
EndsWith(name, suffix) ==
    /\ Len(name) >= Len(suffix)
    /\ SubSeq(name, Len(name) - Len(suffix) + 1, Len(name)) = suffix

Mp3 == <<".", "m", "p", "3">>
Wav == <<".", "w", "a", "v">>

\* Path.stem: the name without its last suffix
PathStem(name) ==
    LET dots == {n \in 2..Len(name) : name[n] = "."}
    IN  IF dots = {} THEN name ELSE SubSeq(name, 1, SetMax(dots) - 1)

\* sorted(list(AUDIO_DIR.glob("*.mp3")) + list(AUDIO_DIR.glob("*.wav")))
GlobAudio(dir) ==
    Sorted({f \in dir : EndsWith(f, Mp3)} \cup {f \in dir : EndsWith(f, Wav)})

\* [f for i, f in enumerate(fs) if test(i)], i counted from 0, from position p on
RECURSIVE ShardFrom(_, _, _, _)
ShardFrom(fs, n, id, p) ==
    IF p > Len(fs) THEN <<>>
    ELSE IF (p - 1) % n = id THEN <<fs[p]>> \o ShardFrom(fs, n, id, p + 1)
    ELSE ShardFrom(fs, n, id, p + 1)

\* the selection with the index counted from 1
RECURSIVE Shard_FromOne(_, _, _)
Shard_FromOne(fs, n, id) ==
    IF fs = <<>> THEN <<>>
    ELSE Shard_FromOne(SubSeq(fs, 1, Len(fs) - 1), n, id)
            \o (IF Len(fs) % n = id THEN <<fs[Len(fs)]>> ELSE <<>>)

\* the selection with every file whose index is at most SHARD_ID modulo n
RECURSIVE Shard_UpTo(_, _, _)
Shard_UpTo(fs, n, id) ==
    IF fs = <<>> THEN <<>>
    ELSE Shard_UpTo(SubSeq(fs, 1, Len(fs) - 1), n, id)
            \o (IF (Len(fs) - 1) % n <= id THEN <<fs[Len(fs)]>> ELSE <<>>)

\* [f for i, f in enumerate(audio_files) if i % TOTAL_SHARDS == SHARD_ID]
Shard(fs, n, id) == ShardFrom(fs, n, id, 1)

\* str(n) for a natural number n
RECURSIVE Dec(_)
Dec(n) ==
    LET d == <<"0", "1", "2", "3", "4", "5", "6", "7", "8", "9">>[(n % 10) + 1]
    IN  IF n < 10 THEN <<d>> ELSE Dec(n \div 10) \o <<d>>

\* f"{x:.2f}" for a time x of h hundredths of a second
Fmt2(h) == Dec(h \div 100) \o <<".">> \o Dec((h % 100) \div 10) \o Dec(h % 10)

\* f"[{seg.start:.2f}-{seg.end:.2f}] {seg.text}\n"
SegLine(seg) ==
    <<"[">> \o Fmt2(seg.start) \o <<"-">> \o Fmt2(seg.end) \o <<"]", " ">>
        \o seg.text \o <<"\n">>

\* the directory f with the content of <stem>.txt set to x
Put(f, stem, x) == [t \in DOMAIN f |-> IF t = stem THEN x ELSE f[t]]

\* Inputs of transcribe_fw: up to MaxAudio files in AUDIO_DIR, up to MaxShards
\* shards, and what the recognizer yields for a file.
MaxAudio == 3

MaxShards == 2

Id11 == <<"d", "Q", "w", "4", "w", "9", "W", "g", "X", "c", "Q">>

ItemIds == {<<"a">>, <<"b">>, <<"c">>, <<"d">>, <<"e">>, Id11}

AudioNames ==
    {<<"a">> \o Mp3, <<"a">> \o Wav, <<"b">> \o Mp3, <<"c">> \o Wav,
     <<"b", ".", "t", "x", "t">>}

Seg1 == [start |-> 0, end |-> 120, text |-> DaJiaHao]
Seg2 == [start |-> 120, end |-> 1250, text |-> DaJiaHao]

SegLists == {<<>>, <<Seg1, Seg2>>}

\* a transcript left by an earlier run
OldTranscript == SegLine(Seg1)

\* the transcripts directory without a file, or with a.txt, empty or not
NoTranscripts == [t \in ItemIds |-> None]

OneTranscript ==
    {NoTranscripts}
    \cup {Put(NoTranscripts, <<"a">>, Some(c)) : c \in {<<>>, OldTranscript}}

Workers == 0..(TOTAL_SHARDS - 1)

\* out_txt.exists(), the test without the size
ExistsNonEmpty_ExistsOnly(stem) == transcripts[stem] # None

\* out_txt.exists() and out_txt.stat().st_size > 0
ExistsNonEmpty(stem) == transcripts[stem] # None /\ Len(transcripts[stem][1]) > 0

\* the audio file a worker is at
AudioPath(w) == audio_files[w][pos[w]]

RunCall(tool, item, by) == calls \cup {[tool |-> tool, item |-> item, by |-> by]}

\* lines 21-29: the worker lists the directory and keeps its shard
FwShard(w) ==
    /\ pc = "fw"
    /\ wpc[w] = "start"
    /\ audio_files' = [audio_files EXCEPT ![w] = Shard(GlobAudio(audio_dir), TOTAL_SHARDS, w)]
    /\ wpc' = [wpc EXCEPT ![w] = "loop"]
    /\ UNCHANGED <<pc, i, normVars, btVars, pjVars, dlVars, envVars, pvVars, transcripts, calls,
                   audio_dir, TOTAL_SHARDS, pos, segments, writers>>

\* lines 59-60: the output exists and is not empty: continue
FwSkip(w) ==
    /\ pc = "fw"
    /\ wpc[w] = "loop"
    /\ pos[w] <= Len(audio_files[w])
    /\ ExistsNonEmpty(PathStem(AudioPath(w)))
    /\ pos' = [pos EXCEPT ![w] = @ + 1]
    /\ UNCHANGED <<pc, i, normVars, btVars, pjVars, dlVars, envVars, pvVars, transcripts, calls,
                   audio_dir, TOTAL_SHARDS, audio_files, wpc, segments, writers>>

\* lines 59-62: the output is missing or empty: the worker enters the try block
FwBegin(w) ==
    /\ pc = "fw"
    /\ wpc[w] = "loop"
    /\ pos[w] <= Len(audio_files[w])
    /\ ~ExistsNonEmpty(PathStem(AudioPath(w)))
    /\ wpc' = [wpc EXCEPT ![w] = "try"]
    /\ UNCHANGED <<pc, i, normVars, btVars, pjVars, dlVars, envVars, pvVars, transcripts, calls,
                   audio_dir, TOTAL_SHARDS, audio_files, pos, segments, writers>>

\* lines 63-69 and 75-76: model.transcribe raises; the exception is printed and
\* the loop goes on
FwTranscribeFail(w) ==
    /\ pc = "fw"
    /\ wpc[w] = "try"
    /\ calls' = calls \cup {[tool |-> "transcribe", item |-> AudioPath(w), by |-> w],
                            [tool |-> "[FAIL]", item |-> AudioPath(w), by |-> w]}
    /\ pos' = [pos EXCEPT ![w] = @ + 1]
    /\ wpc' = [wpc EXCEPT ![w] = "loop"]
    /\ UNCHANGED <<pc, i, normVars, btVars, pjVars, dlVars, envVars, pvVars, transcripts,
                   audio_dir, TOTAL_SHARDS, audio_files, segments, writers>>

\* lines 63-71: model.transcribe returns its generator of segments and the
\* output is opened for writing, which creates or empties it
FwOpen(w) ==
    /\ pc = "fw"
    /\ wpc[w] = "try"
    /\ calls' = RunCall("transcribe", AudioPath(w), w)
    /\ \E segs \in SegLists : segments' = [segments EXCEPT ![w] = segs]
    /\ transcripts' = Put(transcripts, PathStem(AudioPath(w)), Some(<<>>))
    /\ writers' = [writers EXCEPT ![PathStem(AudioPath(w))] = @ \cup {w}]
    /\ wpc' = [wpc EXCEPT ![w] = "write"]
    /\ UNCHANGED <<pc, i, normVars, btVars, pjVars, dlVars, envVars, pvVars,
                   audio_dir, TOTAL_SHARDS, audio_files, pos>>

\* lines 72-73: the generator yields a segment and its line is written
FwWriteSeg(w) ==
    /\ pc = "fw"
    /\ wpc[w] = "write"
    /\ segments[w] # <<>>
    /\ LET stem == PathStem(AudioPath(w)) IN
        transcripts' = Put(transcripts, stem,
            IF transcripts[stem] = None THEN Some(SegLine(Head(segments[w])))
            ELSE Some(transcripts[stem][1] \o SegLine(Head(segments[w]))))
    /\ segments' = [segments EXCEPT ![w] = Tail(@)]
    /\ UNCHANGED <<pc, i, normVars, btVars, pjVars, dlVars, envVars, pvVars, calls,
                   audio_dir, TOTAL_SHARDS, audio_files, pos, wpc, writers>>

\* lines 71-73: the generator is exhausted; the file is closed
FwClose(w) ==
    /\ pc = "fw"
    /\ wpc[w] = "write"
    /\ segments[w] = <<>>
    /\ pos' = [pos EXCEPT ![w] = @ + 1]
    /\ wpc' = [wpc EXCEPT ![w] = "loop"]
    /\ UNCHANGED <<pc, i, normVars, btVars, pjVars, dlVars, envVars, pvVars, transcripts, calls,
                   audio_dir, TOTAL_SHARDS, audio_files, segments, writers>>

\* lines 72-76: the generator (the recognizer at work) or the write raises;
\* the file is closed with what was written, the exception is printed and the
\* loop goes on
FwWriteFail(w) ==
    /\ pc = "fw"
    /\ wpc[w] = "write"
    /\ calls' = RunCall("[FAIL]", AudioPath(w), w)
    /\ segments' = [segments EXCEPT ![w] = <<>>]
    /\ pos' = [pos EXCEPT ![w] = @ + 1]
    /\ wpc' = [wpc EXCEPT ![w] = "loop"]
    /\ UNCHANGED <<pc, i, normVars, btVars, pjVars, dlVars, envVars, pvVars, transcripts,
                   audio_dir, TOTAL_SHARDS, audio_files, writers>>

\* KeyboardInterrupt inside the try block: not an Exception, the process ends
FwInterrupt(w) ==
    /\ pc = "fw"
    /\ wpc[w] \in {"try", "write"}
    /\ segments' = [segments EXCEPT ![w] = <<>>]
    /\ wpc' = [wpc EXCEPT ![w] = "interrupted"]
    /\ UNCHANGED <<pc, i, normVars, btVars, pjVars, dlVars, envVars, pvVars, transcripts, calls,
                   audio_dir, TOTAL_SHARDS, audio_files, pos, writers>>

\* the loop of line 55 is over
FwEnd(w) ==
    /\ pc = "fw"
    /\ wpc[w] = "loop"
    /\ pos[w] > Len(audio_files[w])
    /\ wpc' = [wpc EXCEPT ![w] = "done"]
    /\ UNCHANGED <<pc, i, normVars, btVars, pjVars, dlVars, envVars, pvVars, transcripts, calls,
                   audio_dir, TOTAL_SHARDS, audio_files, pos, segments, writers>>

InitFw ==
    /\ pc = "fw"
    /\ audio_dir \in {d \in SUBSET AudioNames : Cardinality(d) <= MaxAudio}
    /\ TOTAL_SHARDS \in 1..MaxShards
    /\ audio_files = [w \in Workers |-> <<>>]
    /\ pos = [w \in Workers |-> 1]
    /\ wpc = [w \in Workers |-> "start"]
    /\ segments = [w \in Workers |-> <<>>]
    /\ writers = [t \in ItemIds |-> {}]
    /\ transcripts \in OneTranscript
    /\ calls = {}
    /\ NormIdle
    /\ BtIdle
    /\ PjIdle
    /\ DlIdle
    /\ EnvIdle
    /\ PvIdle

NextFw ==
    \E w \in Workers :
        \/ FwShard(w)
        \/ FwSkip(w)
        \/ FwBegin(w)
        \/ FwTranscribeFail(w)
        \/ FwOpen(w)
        \/ FwWriteSeg(w)
        \/ FwClose(w)
        \/ FwWriteFail(w)
        \/ FwInterrupt(w)
        \/ FwEnd(w)

SpecFw == InitFw /\ [][NextFw]_vars

\* every worker has its list
AllSharded == \A w \in Workers : wpc[w] # "start"

\* C18: once every worker of 0..TOTAL_SHARDS-1 has selected its files, the file
\* at index j of the sorted list is in the list of worker j mod TOTAL_SHARDS and
\* in no other list, each list holds files of the sorted list only, each once,
\* and in the order of the sorted list.
C18_ShardsPartition ==
    AllSharded =>
        LET fs == GlobAudio(audio_dir) IN
            /\ \A p \in 1..Len(fs) : \A w \in Workers :
                (\E q \in 1..Len(audio_files[w]) : audio_files[w][q] = fs[p])
                    <=> w = (p - 1) % TOTAL_SHARDS
            /\ \A w \in Workers :
                /\ IsSubsequence(audio_files[w], fs)
                /\ \A q, r \in 1..Len(audio_files[w]) :
                    audio_files[w][q] = audio_files[w][r] => q = r
            /\ \A p \in 1..(Len(fs) - 1) : StrLess(fs[p], fs[p + 1])
            /\ \A f \in audio_dir :
                (EndsWith(f, Mp3) \/ EndsWith(f, Wav))
                    <=> \E p \in 1..Len(fs) : fs[p] = f

\* three audio files shared out between two workers
C18_Witness ==
    /\ AllSharded
    /\ TOTAL_SHARDS = 2
    /\ Len(audio_files[0]) = 2
    /\ Len(audio_files[1]) = 1

UniqueStems ==
    \A f, g \in audio_dir :
        (/\ EndsWith(f, Mp3) \/ EndsWith(f, Wav)
         /\ EndsWith(g, Mp3) \/ EndsWith(g, Wav)
         /\ PathStem(f) = PathStem(g)) => f = g

RECURSIVE CrlLoop(_, _, _, _)
CrlLoop(ls, j, cl, last) ==
    IF j > Len(ls) THEN cl
    ELSE LET t == ExtractContent(ls[j]) IN
        IF SameAsLast(t, last) THEN CrlLoop(ls, j + 1, cl, last)
        ELSE CrlLoop(ls, j + 1, Kept(cl, ls[j]), Some(t))

CleanRepeatedLines(ls) == CrlLoop(ls, 1, <<>>, None)

\* f.readlines(): the lines of a content, each with its newline
RECURSIVE ReadLines(_)
ReadLines(c) ==
    IF c = <<>> THEN <<>>
    ELSE IF \E k \in 1..Len(c) : c[k] = "\n"
    THEN LET k == SetMin({j \in 1..Len(c) : c[j] = "\n"})
         IN  <<SubSeq(c, 1, k)>> \o ReadLines(SubSeq(c, k + 1, Len(c)))
    ELSE <<c>>

\* clean_transcript_file: the content the file is rewritten with
CleanTranscriptFile(c) == Concat(CleanRepeatedLines(ReadLines(c)))

WebVtt == <<"W", "E", "B", "V", "T", "T">>

StartsWith(s, prefix) ==
    Len(s) >= Len(prefix) /\ SubSeq(s, 1, Len(prefix)) = prefix

\* the loop of vtt_to_txt from line j on
RECURSIVE VttLoop(_, _)
VttLoop(ls, j) ==
    IF j > Len(ls) THEN <<>>
    ELSE LET line == Strip(ls[j]) IN
        IF line = <<>> \/ StartsWith(line, WebVtt) THEN VttLoop(ls, j + 1)
        ELSE <<line \o <<"\n">>>> \o VttLoop(ls, j + 1)

\* vtt_to_txt: the content written to txt_path for the content of vtt_path
VttToTxt(c) == Concat(VttLoop(ReadLines(c), 1))

\* the loop over result['segments'] of save_transcript from segment j on: the
\* loop of SaveSegKeep, SaveSegEmpty and SaveSegDuplicate as a function
RECURSIVE SegLoop(_, _, _, _)
SegLoop(segs, j, ls, prev) ==
    IF j > Len(segs) THEN ls
    ELSE LET t == Strip(segs[j]) IN
        IF t # <<>> /\ (prev = None \/ ~IsDuplicateLine(t, prev[1], DefaultThreshold))
        THEN SegLoop(segs, j + 1, Append(ls, t), Some(t))
        ELSE SegLoop(segs, j + 1, ls, prev)

\* save_transcript: the content written to <video_id>.txt for a result
SaveTranscript(r) ==
    TextPipeline(IF r.kind = "segments" THEN Join(SegLoop(r.segments, 1, <<>>, None))
                 ELSE r.text)

\* The videos the runs are given.  What the platform and the recognizer answer
\* for a video is fixed: a has manual Chinese subtitles that download as
\* VttA; c lists manual Chinese subtitles (zh-Hans) that the download, asked
\* for zh, zh-Hant and zh-TW, does not fetch; b has no manual subtitles and
\* is recognised as ResultB; d has none and its audio download fails.  The
\* video e is listed with the url of video b.  The last video has an id of
\* eleven characters, as the platform's ids are.
MaxVideos == 2

MaxRuns == 2

TimeLine1 == SubSeq(TagArrow1, 2, Len(TagArrow1) - 1)
TimeLine2 == SubSeq(TagArrow2, 2, Len(TagArrow2) - 1)

VttA ==
    WebVtt \o <<"\n", "\n">>
    \o TimeLine1 \o <<"\n">>
    \o <<" ">> \o DaJiaHao \o <<" ", "\n">>
    \o DaJiaHao \o <<"\n", "\n">>
    \o TimeLine2 \o <<"\n">>
    \o <<"[">> \o YinYue \o <<"]">> \o JinTian \o <<"\n">>

ResultB ==
    [kind |-> "segments", text |-> <<>>,
     segments |-> <<DaJiaHao, DaJiaHao, <<"[">> \o YinYue \o <<"]">> \o JinTianTianQi>>]

\* get_manual_subtitles(video_url) is not empty
ManualSubs(id) == id \in {<<"a">>, <<"c">>}

\* the newest <video_id>.zh*.vtt after download_manual_subtitle, or None
VttFile(id) == IF id = <<"a">> THEN Some(VttA) ELSE None

\* a result without segments
ResultA ==
    [kind |-> "text", segments |-> <<>>, text |-> <<"a", "\n", "\n", "\n", "\n", "b">>]

\* a result of boilerplate only: the transcript saved is empty
ResultC ==
    [kind |-> "segments", text |-> <<>>, segments |-> <<<<"[">> \o YinYue \o <<"]">>>>]

\* what transcriber.transcribe_audio returns for the video, or None when
\* process_video raises (the audio of d cannot be downloaded)
WhisperResult(id) ==
    CASE id = <<"a">> -> Some(ResultA)
      [] id = <<"c">> -> Some(ResultC)
      [] id = <<"d">> -> None
      [] OTHER        -> Some(ResultB)

\* info.get('id') in download_audio: the id the platform knows the video of
\* the item's url by
PlatformId(id) == IF id = <<"e">> THEN <<"b">> ELSE id

view_count(id) ==
    CASE id = <<"a">> -> 5 [] id = <<"b">> -> 9 [] id = <<"c">> -> 9 [] OTHER -> 1

\* videos_to_process.sort(key=view_count, reverse=True): stable.  The video
\* at position j goes after those with more views and after those before it
\* with as many.
SortByViews(vs) ==
    LET before(j) ==
            Cardinality({k \in 1..Len(vs) :
                \/ view_count(vs[k]) > view_count(vs[j])
                \/ view_count(vs[k]) = view_count(vs[j]) /\ k < j})
    IN  [p \in 1..Len(vs) |-> vs[CHOOSE j \in 1..Len(vs) : before(j) = p - 1]]

\* the videos of vi without a transcript, in the order of vi
RECURSIVE NeedTranscript(_)
NeedTranscript(vi) ==
    IF vi = <<>> THEN <<>>
    ELSE (IF ~Head(vi).has_transcript THEN <<Head(vi).video_id>> ELSE <<>>)
            \o NeedTranscript(Tail(vi))

\* videos_to_process[start_from:]
From(vs, sf) == IF sf > 0 THEN SubSeq(vs, sf + 1, Len(vs)) ELSE vs

\* videos_to_process[:max_videos]
UpTo(vs, mv) ==
    IF mv # None THEN SubSeq(vs, 1, IF mv[1] < Len(vs) THEN mv[1] ELSE Len(vs)) ELSE vs

\* lines 409-431: the worklist
Worklist(vi, sf, mv) == UpTo(From(SortByViews(NeedTranscript(vi)), sf), mv)

\* check_existing_transcripts: has_transcript set from the files of the directory
Scan(vi, dir) ==
    [j \in 1..Len(vi) |-> [vi[j] EXCEPT !.has_transcript = dir[vi[j].video_id] # None]]

\* info['transcript_source'] = src for the video id
SetSource(vi, id, src) ==
    [j \in 1..Len(vi) |->
        IF vi[j].video_id = id THEN [vi[j] EXCEPT !.transcript_source = src] ELSE vi[j]]

\* process_video: the transcript that save_transcript writes for the video
\* the platform knows by id, or None when process_video raises
Saved(id) ==
    IF WhisperResult(id) # None THEN Some(SaveTranscript(WhisperResult(id)[1])) ELSE None

\* lines 486-521: the content of the item's transcript when its processing
\* in batch_transcribe is complete, or None when it fails
Produced(id) ==
    IF ManualSubs(id)
    THEN IF VttFile(id) # None
         THEN Some(CleanTranscriptFile(VttToTxt(VttFile(id)[1]))) ELSE None
    ELSE IF Saved(id) # None /\ PlatformId(id) = id
         THEN Some(CleanTranscriptFile(Saved(id)[1])) ELSE None

\* What the platform and the tools hold for each video during the run: the
\* transcript process_video saves for it and the transcript batch_transcribe
\* ends with.
Platform == [id \in ItemIds |-> [saved |-> Saved(id), produced |-> Produced(id)]]

total == Len(videos_to_process)
video_id == videos_to_process[i]
actual_index == start_from + i

\* output_file.exists()
Exists(id) == transcripts[id] # None

\* lines 409-458: the worklist is built; with no video the method returns
BtStart ==
    /\ pc = "bt_start"
    /\ videos_to_process' = Worklist(video_info, start_from, max_videos)
    /\ pc' = IF Worklist(video_info, start_from, max_videos) = <<>>
             THEN "bt_done" ELSE "bt_loop"
    /\ i' = 1
    /\ success_count' = 0
    /\ error_count' = 0
    /\ skip_count' = 0
    /\ UNCHANGED <<normVars, transcripts, calls, fwVars, pjVars, dlVars, envVars, pvVars, video_info, start_from,
                   max_videos, hint, run>>

\* the skip of an item with its count left as it is
BtSkip_NotCounted ==
    /\ pc = "bt_loop"
    /\ i <= total
    /\ Exists(video_id)
    /\ i' = i + 1
    /\ UNCHANGED <<pc, normVars, transcripts, calls, fwVars, pjVars, dlVars, envVars, pvVars,
                   video_info, start_from, max_videos, videos_to_process, success_count,
                   error_count, skip_count, hint, run>>

\* lines 478-484: the transcript exists: the item is skipped
BtSkip ==
    /\ pc = "bt_loop"
    /\ i <= total
    /\ Exists(video_id)
    /\ skip_count' = skip_count + 1
    /\ i' = i + 1
    /\ UNCHANGED <<pc, normVars, transcripts, calls, fwVars, pjVars, dlVars, envVars, pvVars, video_info, start_from,
                   max_videos, videos_to_process, success_count, error_count,
                   hint, run>>

\* lines 486-510: manual subtitles are listed and downloaded; the transcript is
\* vtt_to_txt of the newest subtitle file, then clean_transcript_file
BtManual ==
    /\ pc = "bt_loop"
    /\ i <= total
    /\ ~Exists(video_id)
    /\ ManualSubs(video_id)
    /\ VttFile(video_id) # None
    /\ calls' = calls \cup {[tool |-> "get_manual_subtitles", item |-> video_id, by |-> run],
                            [tool |-> "download_manual_subtitle", item |-> video_id, by |-> run]}
    /\ video_info' = SetSource(video_info, video_id, <<"m", "a", "n", "u", "a", "l">>)
    /\ transcripts' = Put(transcripts, video_id, platform[video_id].produced)
    /\ success_count' = success_count + 1
    /\ i' = i + 1
    /\ UNCHANGED <<pc, normVars, fwVars, pjVars, dlVars, envVars, pvVars, start_from, max_videos, videos_to_process,
                   error_count, skip_count, hint, run>>

\* the failure of the subtitle download with a fall back to the recognizer
BtManualFail_FallsBack ==
    /\ pc = "bt_loop"
    /\ i <= total
    /\ ~Exists(video_id)
    /\ ManualSubs(video_id)
    /\ VttFile(video_id) = None
    /\ calls' = calls \cup {[tool |-> "get_manual_subtitles", item |-> video_id, by |-> run],
                            [tool |-> "download_manual_subtitle", item |-> video_id, by |-> run],
                            [tool |-> "process_video", item |-> video_id, by |-> run]}
    /\ video_info' = SetSource(video_info, video_id, <<"m", "a", "n", "u", "a", "l">>)
    /\ error_count' = error_count + 1
    /\ i' = i + 1
    /\ UNCHANGED <<pc, normVars, transcripts, fwVars, pjVars, dlVars, envVars, pvVars, start_from, max_videos,
                   videos_to_process, success_count, skip_count, hint, run>>

\* lines 486-502 and 532-534: manual subtitles are listed but the download
\* raises or leaves no subtitle file: the item has failed
BtManualFail ==
    /\ pc = "bt_loop"
    /\ i <= total
    /\ ~Exists(video_id)
    /\ ManualSubs(video_id)
    /\ VttFile(video_id) = None
    /\ calls' = calls \cup {[tool |-> "get_manual_subtitles", item |-> video_id, by |-> run],
                            [tool |-> "download_manual_subtitle", item |-> video_id, by |-> run]}
    /\ video_info' = SetSource(video_info, video_id, <<"m", "a", "n", "u", "a", "l">>)
    /\ error_count' = error_count + 1
    /\ i' = i + 1
    /\ UNCHANGED <<pc, normVars, transcripts, fwVars, pjVars, dlVars, envVars, pvVars, start_from, max_videos,
                   videos_to_process, success_count, skip_count, hint, run>>

\* lines 512-519: no manual subtitles: process_video downloads the audio,
\* recognises it and saves the transcript, which clean_transcript_file rewrites
BtWhisper ==
    /\ pc = "bt_loop"
    /\ i <= total
    /\ ~Exists(video_id)
    /\ ~ManualSubs(video_id)
    /\ WhisperResult(video_id) # None
    /\ PlatformId(video_id) = video_id
    /\ calls' = calls \cup {[tool |-> "get_manual_subtitles", item |-> video_id, by |-> run],
                            [tool |-> "process_video", item |-> video_id, by |-> run]}
    /\ video_info' = SetSource(video_info, video_id, <<"w", "h", "i", "s", "p", "e", "r">>)
    /\ transcripts' = Put(transcripts, video_id, platform[video_id].produced)
    /\ success_count' = success_count + 1
    /\ i' = i + 1
    /\ UNCHANGED <<pc, normVars, fwVars, pjVars, dlVars, envVars, pvVars, start_from, max_videos, videos_to_process,
                   error_count, skip_count, hint, run>>

\* lines 512-518 and 532-534: process_video saves a transcript under the id
\* the platform gives, which is not the item's: the item has no output and
\* has failed
BtWhisperNoOutput ==
    /\ pc = "bt_loop"
    /\ i <= total
    /\ ~Exists(video_id)
    /\ ~ManualSubs(video_id)
    /\ PlatformId(video_id) # video_id
    /\ WhisperResult(PlatformId(video_id)) # None
    /\ calls' = calls \cup {[tool |-> "get_manual_subtitles", item |-> video_id, by |-> run],
                            [tool |-> "process_video", item |-> video_id, by |-> run]}
    /\ transcripts' = Put(transcripts, PlatformId(video_id), platform[PlatformId(video_id)].saved)
    /\ error_count' = error_count + 1
    /\ i' = i + 1
    /\ UNCHANGED <<pc, normVars, fwVars, pjVars, dlVars, envVars, pvVars, video_info, start_from,
                   max_videos, videos_to_process, success_count, skip_count, hint, run>>

\* the same with the failure ending the loop
BtWhisperFail_EndsLoop ==
    /\ pc = "bt_loop"
    /\ i <= total
    /\ ~Exists(video_id)
    /\ ~ManualSubs(video_id)
    /\ WhisperResult(video_id) = None
    /\ calls' = calls \cup {[tool |-> "get_manual_subtitles", item |-> video_id, by |-> run],
                            [tool |-> "process_video", item |-> video_id, by |-> run]}
    /\ error_count' = error_count + 1
    /\ pc' = "bt_done"
    /\ UNCHANGED <<i, normVars, transcripts, fwVars, pjVars, dlVars, envVars, pvVars, video_info,
                   start_from, max_videos, videos_to_process, success_count, skip_count,
                   hint, run>>

\* lines 512-516 and 532-534: process_video raises: the item has failed
BtWhisperFail ==
    /\ pc = "bt_loop"
    /\ i <= total
    /\ ~Exists(video_id)
    /\ ~ManualSubs(video_id)
    /\ WhisperResult(video_id) = None
    /\ calls' = calls \cup {[tool |-> "get_manual_subtitles", item |-> video_id, by |-> run],
                            [tool |-> "process_video", item |-> video_id, by |-> run]}
    /\ error_count' = error_count + 1
    /\ i' = i + 1
    /\ UNCHANGED <<pc, normVars, transcripts, fwVars, pjVars, dlVars, envVars, pvVars, video_info, start_from,
                   max_videos, videos_to_process, success_count, skip_count, hint, run>>


\* lines 523-530: KeyboardInterrupt while the item is processed: the counts and
\* the hint are printed and the exception goes up.  The transcript is as the
\* interruption finds it: not written yet, opened and still empty, or written.
BtInterrupt ==
    /\ pc = "bt_loop"
    /\ i <= total
    /\ ~Exists(video_id)
    /\ \E left \in {None, Some(<<>>), platform[video_id].produced} :
        /\ left # None => platform[video_id].produced # None
        /\ transcripts' = Put(transcripts, video_id, left)
    /\ hint' = Some(actual_index)
    /\ pc' = "bt_interrupted"
    /\ UNCHANGED <<i, normVars, calls, fwVars, pjVars, dlVars, envVars, pvVars, video_info, start_from, max_videos,
                   videos_to_process, success_count, error_count, skip_count, run>>

\* lines 536-550: the loop is over
BtDone ==
    /\ pc = "bt_loop"
    /\ i > total
    /\ pc' = "bt_done"
    /\ UNCHANGED <<i, normVars, drvVars>>

\* main, run again with START_FROM set to the hint: the videos are loaded,
\* check_existing_transcripts scans the directory, batch_transcribe is called
MainRerun ==
    /\ pc = "bt_interrupted"
    /\ run < MaxRuns
    /\ run' = run + 1
    /\ start_from' = hint[1]
    /\ hint' = None
    /\ video_info' = Scan([j \in 1..Len(video_info) |->
                             [video_info[j] EXCEPT !.transcript_source = <<>>]],
                          transcripts)
    /\ videos_to_process' = <<>>
    /\ pc' = "bt_start"
    /\ UNCHANGED <<i, normVars, transcripts, calls, fwVars, pjVars, dlVars, envVars, pvVars, max_videos,
                   success_count, error_count, skip_count>>

\* the lists of up to n different videos
IdLists(n) ==
    {ids \in UNION {[1..m -> ItemIds] : m \in 0..n} :
        \A j, k \in 1..Len(ids) : ids[j] = ids[k] => j = k}

\* self.video_info as load_videos_from_sample_json leaves it
Loaded(ids) ==
    [j \in 1..Len(ids) |->
        [video_id |-> ids[j], has_transcript |-> FALSE, transcript_source |-> <<>>]]

\* Init: the videos are loaded and has_transcript is set, by a scan of the
\* directory as it is or by a scan that came before its file was there.
InitBt ==
    /\ platform = Platform
    /\ PvIdle
    /\ pc = "bt_start"
    /\ transcripts \in OneTranscript
    /\ \E ids \in IdLists(MaxVideos) :
        video_info \in {Scan(Loaded(ids), transcripts), Scan(Loaded(ids), NoTranscripts)}
    /\ start_from \in 0..1
    /\ max_videos \in {None, Some(1)}
    /\ videos_to_process = <<>>
    /\ success_count = 0
    /\ error_count = 0
    /\ skip_count = 0
    /\ hint = None
    /\ run = 1
    /\ i = 1
    /\ calls = {}
    /\ NormIdle
    /\ FwIdle
    /\ PjIdle
    /\ DlIdle

NextBt ==
    \/ BtStart
    \/ BtSkip
    \/ BtManual
    \/ BtManualFail
    \/ BtWhisper
    \/ BtWhisperNoOutput
    \/ BtWhisperFail
    \/ BtInterrupt
    \/ BtDone
    \/ MainRerun

SpecBt == InitBt /\ [][NextBt]_vars

(***************************************************************************)
(* process_json_file (youtube_transcribe.py).                              *)
(***************************************************************************)
\* [a-zA-Z0-9_-]
IsIdChar(c) == c \in Letters \cup Digits \cup {"_", "-"}

\* re.search(r'(?:v=|\/)([a-zA-Z0-9_-]{11})', video_url): group 1 of the
\* leftmost match, or None
ExtractId(url) ==
    LET Ok(q) == q + 10 <= Len(url) /\ \A j \in q..(q + 10) : IsIdChar(url[j])
        At(p) == IF url[p] = "/" THEN p + 1
                 ELSE IF p < Len(url) /\ url[p] = "v" /\ url[p + 1] = "=" THEN p + 2
                 ELSE 0
        starts == {p \in 1..Len(url) : At(p) > 0 /\ Ok(At(p))}
    IN  IF starts = {} THEN None
        ELSE Some(SubSeq(url, At(SetMin(starts)), At(SetMin(starts)) + 10))

WatchUrl(id) ==
    <<"h", "t", "t", "p", "s", ":", "/", "/", "w", "w", "w", ".", "y", "o", "u",
      "t", "u", "b", "e", ".", "c", "o", "m", "/", "w", "a", "t", "c", "h", "?",
      "v", "=">> \o id

\* The entries of data['videos']: video_id as the JSON gives it, or None; url;
\* id, the id the platform knows the video of the url by (what download_audio
\* returns).
PjItems ==
    {[video_id |-> Some(t), url |-> WatchUrl(t), id |-> t] : t \in {<<"a">>, <<"c">>, <<"d">>}}
    \cup {[video_id |-> None, url |-> WatchUrl(t), id |-> t] : t \in {<<"b">>, Id11}}

pj_total ==
    IF max_videos = None THEN Len(videos)
    ELSE IF max_videos[1] < Len(videos) THEN max_videos[1] ELSE Len(videos)

\* lines 433-441: video_id of the entry, or the id found in its url, or None
PjVideoId ==
    IF videos[i].video_id # None THEN videos[i].video_id
    ELSE ExtractId(videos[i].url)

\* lines 444-448: the id is known and the transcript exists: continue
PjSkip ==
    /\ pc = "pj_loop"
    /\ i <= pj_total
    /\ PjVideoId # None
    /\ Exists(PjVideoId[1])
    /\ i' = i + 1
    /\ UNCHANGED <<pc, normVars, drvVars>>

\* lines 454-456: process_video downloads, recognises and saves the transcript
PjProcess ==
    /\ pc = "pj_loop"
    /\ i <= pj_total
    /\ IF PjVideoId = None THEN TRUE ELSE ~Exists(PjVideoId[1])
    /\ WhisperResult(videos[i].id) # None
    /\ calls' = RunCall("process_video", videos[i].id, 1)
    /\ transcripts' = Put(transcripts, videos[i].id, platform[videos[i].id].saved)
    /\ i' = i + 1
    /\ UNCHANGED <<pc, normVars, fwVars, btVars, pjVars, dlVars, envVars, pvVars>>

\* lines 454-462: process_video raises: the failure is printed
PjFail ==
    /\ pc = "pj_loop"
    /\ i <= pj_total
    /\ IF PjVideoId = None THEN TRUE ELSE ~Exists(PjVideoId[1])
    /\ WhisperResult(videos[i].id) = None
    /\ calls' = RunCall("process_video", videos[i].id, 1)
    /\ i' = i + 1
    /\ UNCHANGED <<pc, normVars, transcripts, fwVars, btVars, pjVars, dlVars, envVars, pvVars>>

\* lines 457-459 and 465-467: KeyboardInterrupt in process_video: the run
\* stops; the transcript is not written yet, or opened and still empty
PjInterrupt ==
    /\ pc = "pj_loop"
    /\ i <= pj_total
    /\ IF PjVideoId = None THEN TRUE ELSE ~Exists(PjVideoId[1])
    /\ calls' = RunCall("process_video", videos[i].id, 1)
    /\ \E left \in {transcripts[videos[i].id], Some(<<>>)} :
        /\ left # transcripts[videos[i].id] => WhisperResult(videos[i].id) # None
        /\ transcripts' = Put(transcripts, videos[i].id, left)
    /\ pc' = "pj_interrupted"
    /\ UNCHANGED <<i, normVars, fwVars, btVars, pjVars, dlVars, envVars, pvVars>>

\* the loop is over
PjDone ==
    /\ pc = "pj_loop"
    /\ i > pj_total
    /\ pc' = "pj_done"
    /\ UNCHANGED <<i, normVars, drvVars>>

\* the lists of up to n different entries
PjLists(n) ==
    {vs \in UNION {[1..m -> PjItems] : m \in 0..n} :
        \A j, k \in 1..Len(vs) : vs[j] = vs[k] => j = k}

InitPj ==
    /\ platform = Platform
    /\ PvIdle
    /\ pc = "pj_loop"
    /\ videos \in PjLists(MaxVideos)
    /\ max_videos \in {None, Some(1)}
    /\ transcripts \in OneTranscript
    /\ i = 1
    /\ calls = {}
    /\ NormIdle
    /\ FwIdle
    /\ DlIdle
    /\ video_info = <<>>
    /\ start_from = 0
    /\ videos_to_process = <<>>
    /\ success_count = 0
    /\ error_count = 0
    /\ skip_count = 0
    /\ hint = None
    /\ run = 1

NextPj == PjSkip \/ PjProcess \/ PjFail \/ PjInterrupt \/ PjDone

SpecPj == InitPj /\ [][NextPj]_vars

(***************************************************************************)
(* download_audio_from_json.py.                                            *)
(***************************************************************************)
\* The entries of data['videos']: video_id, or None when the entry has no
\* such key, and url.
DlItems ==
    {[video_id |-> Some(t), url |-> WatchUrl(t)] : t \in {<<"a">>, <<"b">>}}
    \cup {[video_id |-> None, url |-> WatchUrl(Id11)]}

\* The states of <video_id>.mp3 in OUTPUT_DIR: no such file, a file ffprobe
\* parses, a file it does not.
AudioStates == {"missing", "good", "bad"}

\* out_path.exists()
AudioExists(f) == f # "missing"

\* ffprobe_ok(path): ffprobe returns 0 within FFPROBE_TIMEOUT
ffprobe_ok(f) == f = "good"

\* lines 75-78 with the check of ffprobe left out
DownloadResult_NoProbe(returncode, f) ==
    IF returncode # 0 THEN FALSE ELSE AudioExists(f)

\* lines 72-78: whether download_audio returns out_path, yt-dlp having
\* returned returncode and left the file in state f
DownloadResult(returncode, f) ==
    IF returncode # 0 THEN FALSE ELSE AudioExists(f) /\ ffprobe_ok(f)

\* the entry as main appends it to manifest
ManifestEntry(v) ==
    [video_id |-> v.video_id[1], url |-> v.url, audio_path |-> v.video_id[1] \o Mp3]

\* the entry as main appends it to failed
FailedEntry(v) == [video_id |-> v.video_id[1], url |-> v.url]

\* lines 94-109 and 57-58: the audio exists and ffprobe parses it:
\* download_audio returns its path at once and the entry goes to manifest
DlHave ==
    /\ pc = "dl_loop"
    /\ i <= Len(videos)
    /\ videos[i].video_id # None
    /\ AudioExists(audio[videos[i].video_id[1]])
    /\ ffprobe_ok(audio[videos[i].video_id[1]])
    /\ manifest' = Append(manifest, ManifestEntry(videos[i]))
    /\ i' = i + 1
    /\ UNCHANGED <<pc, normVars, transcripts, calls, fwVars, btVars, pjVars, envVars, pvVars,
                   failed, audio>>

\* lines 94-114 and 57-78: yt-dlp is run; it returns a code and leaves the
\* file as it was or writes it, well or not; the entry goes to manifest when
\* download_audio returns the path, else to failed
DlDownload ==
    /\ pc = "dl_loop"
    /\ i <= Len(videos)
    /\ videos[i].video_id # None
    /\ ~(AudioExists(audio[videos[i].video_id[1]]) /\ ffprobe_ok(audio[videos[i].video_id[1]]))
    /\ calls' = RunCall("yt-dlp", videos[i].video_id[1], i)
    /\ \E returncode \in {0, 1}, f \in AudioStates :
        /\ f = "missing" => audio[videos[i].video_id[1]] = "missing"
        /\ audio' = [audio EXCEPT ![videos[i].video_id[1]] = f]
        /\ IF DownloadResult(returncode, f)
           THEN manifest' = Append(manifest, ManifestEntry(videos[i])) /\ failed' = failed
           ELSE failed' = Append(failed, FailedEntry(videos[i])) /\ manifest' = manifest
    /\ i' = i + 1
    /\ UNCHANGED <<pc, normVars, transcripts, fwVars, btVars, pjVars, envVars, pvVars>>

\* line 95: v["video_id"] of an entry without the key raises KeyError; main
\* ends there and writes no result file
DlKeyError ==
    /\ pc = "dl_loop"
    /\ i <= Len(videos)
    /\ videos[i].video_id = None
    /\ pc' = "dl_raised"
    /\ UNCHANGED <<i, normVars, drvVars>>

\* lines 116-128: the loop is over; the two lists are written
DlDone ==
    /\ pc = "dl_loop"
    /\ i > Len(videos)
    /\ pc' = "dl_done"
    /\ UNCHANGED <<i, normVars, drvVars>>

\* the lists of up to n entries
DlLists(n) == UNION {[1..m -> DlItems] : m \in 0..n}

InitDl ==
    /\ pc = "dl_loop"
    /\ videos \in DlLists(MaxVideos)
    /\ audio \in [{<<"a">>, <<"b">>} -> AudioStates]
    /\ manifest = <<>>
    /\ failed = <<>>
    /\ i = 1
    /\ transcripts = <<>>
    /\ calls = {}
    /\ NormIdle
    /\ FwIdle
    /\ BtIdle
    /\ EnvIdle
    /\ PvIdle

NextDl == DlHave \/ DlDownload \/ DlKeyError \/ DlDone

SpecDl == InitDl /\ [][NextDl]_vars

(***************************************************************************)
(* process_video (youtube_transcribe.py): download_audio writes            *)
(* temp_audio.mp3, transcribe_audio recognises it, save_transcript writes  *)
(* the transcript, and the audio is removed unless keep_audio.             *)
(***************************************************************************)
\* output_path of download_audio
TempAudio == <<"t", "e", "m", "p", "_", "a", "u", "d", "i", "o">> \o Mp3

\* the video the url is of
UrlVideo(url) == CHOOSE t \in ItemIds : WatchUrl(t) = url

\* os.path.exists(audio_path)
AudioPathExists == temp_audio

\* lines 400-403, the handler of KeyboardInterrupt: the audio is removed
\* whenever audio_path is set and the file exists
InterruptCleanup == IF audio_path # None /\ AudioPathExists THEN FALSE ELSE temp_audio

\* lines 406-409, the handler of Exception: the audio is removed when
\* audio_path is set, keep_audio is not and the file exists
ErrorCleanup ==
    IF audio_path # None /\ ~keep_audio /\ AudioPathExists THEN FALSE ELSE temp_audio

\* line 384 and download_audio: the audio of the video is written to
\* temp_audio.mp3 and audio_path is set
PvDownload ==
    /\ pc = "pv_download"
    /\ WhisperResult(UrlVideo(video_url)) # None
    /\ temp_audio' = TRUE
    /\ audio_path' = Some(TempAudio)
    /\ pc' = "pv_transcribe"
    /\ UNCHANGED <<i, normVars, transcripts, calls, fwVars, btVars, pjVars, dlVars, envVars,
                   video_url, keep_audio>>

\* lines 384 and 405-411: download_audio raises: audio_path is still None and
\* the handler removes nothing
PvDownloadFail ==
    /\ pc = "pv_download"
    /\ WhisperResult(UrlVideo(video_url)) = None
    /\ temp_audio' = ErrorCleanup
    /\ pc' = "pv_raised"
    /\ UNCHANGED <<i, normVars, transcripts, calls, fwVars, btVars, pjVars, dlVars, envVars,
                   video_url, keep_audio, audio_path>>

\* line 387: transcribe_audio returns
PvTranscribe ==
    /\ pc = "pv_transcribe"
    /\ pc' = "pv_save"
    /\ UNCHANGED <<i, normVars, transcripts, calls, fwVars, btVars, pjVars, dlVars, envVars,
                   pvVars>>

\* lines 387 and 405-411: transcribe_audio raises
PvTranscribeFail ==
    /\ pc = "pv_transcribe"
    /\ temp_audio' = ErrorCleanup
    /\ pc' = "pv_raised"
    /\ UNCHANGED <<i, normVars, transcripts, calls, fwVars, btVars, pjVars, dlVars, envVars,
                   video_url, keep_audio, audio_path>>

\* line 390: save_transcript writes the transcript under the id that
\* download_audio returned
PvSave ==
    /\ pc = "pv_save"
    /\ transcripts' = Put(transcripts, PlatformId(UrlVideo(video_url)),
                          platform[PlatformId(UrlVideo(video_url))].saved)
    /\ pc' = "pv_cleanup"
    /\ UNCHANGED <<i, normVars, calls, fwVars, btVars, pjVars, dlVars, envVars, pvVars>>

\* lines 390 and 405-411: save_transcript raises
PvSaveFail ==
    /\ pc = "pv_save"
    /\ temp_audio' = ErrorCleanup
    /\ pc' = "pv_raised"
    /\ UNCHANGED <<i, normVars, transcripts, calls, fwVars, btVars, pjVars, dlVars, envVars,
                   video_url, keep_audio, audio_path>>

\* lines 393-398: the audio is removed unless keep_audio, and the result is
\* returned
PvCleanup ==
    /\ pc = "pv_cleanup"
    /\ temp_audio' = IF ~keep_audio /\ AudioPathExists THEN FALSE ELSE temp_audio
    /\ pc' = "pv_returned"
    /\ UNCHANGED <<i, normVars, transcripts, calls, fwVars, btVars, pjVars, dlVars, envVars,
                   video_url, keep_audio, audio_path>>

\* lines 400-404: KeyboardInterrupt during download_audio: audio_path is still
\* None, and temp_audio.mp3 is as the interruption finds it, written or not
PvInterruptDownload ==
    /\ pc = "pv_download"
    /\ temp_audio' \in {temp_audio, TRUE}
    /\ pc' = "pv_interrupted"
    /\ UNCHANGED <<i, normVars, transcripts, calls, fwVars, btVars, pjVars, dlVars, envVars,
                   video_url, keep_audio, audio_path>>

\* lines 400-404: KeyboardInterrupt after download_audio has returned
PvInterrupt ==
    /\ pc \in {"pv_transcribe", "pv_save", "pv_cleanup"}
    /\ temp_audio' = InterruptCleanup
    /\ pc' = "pv_interrupted"
    /\ UNCHANGED <<i, normVars, transcripts, calls, fwVars, btVars, pjVars, dlVars, envVars,
                   video_url, keep_audio, audio_path>>

\* A call of process_video: the url of a video, keep_audio as the caller
\* chooses, and the working directory with or without a temp_audio.mp3 that
\* an earlier call has kept.
InitPv ==
    /\ platform = Platform
    /\ pc = "pv_download"
    /\ video_url \in {WatchUrl(t) : t \in ItemIds}
    /\ keep_audio \in BOOLEAN
    /\ audio_path = None
    /\ temp_audio \in BOOLEAN
    /\ transcripts \in OneTranscript
    /\ calls = {}
    /\ NormIdle
    /\ FwIdle
    /\ BtIdle
    /\ PjIdle
    /\ DlIdle

NextPv ==
    \/ PvDownload
    \/ PvDownloadFail
    \/ PvTranscribe
    \/ PvTranscribeFail
    \/ PvSave
    \/ PvSaveFail
    \/ PvCleanup
    \/ PvInterruptDownload
    \/ PvInterrupt

SpecPv == InitPv /\ [][NextPv]_vars

(***************************************************************************)
(* The three batch drivers: a run is a run of one of them.                 *)
(***************************************************************************)
InitDrivers == InitFw \/ InitBt \/ InitPj

NextDrivers == NextFw \/ NextBt \/ NextPj

SpecDrivers == InitDrivers /\ [][NextDrivers]_vars

\* <t>.txt exists and is not empty
HasContent(t) == transcripts[t] # None /\ transcripts[t][1] # <<>>

\* <t>.txt exists
IsThere(t) == transcripts[t] # None

\* the step in which worker w of transcribe_fw decides on the file it is at
FwDecides(w) ==
    /\ pc = "fw"
    /\ wpc[w] = "loop"
    /\ pos[w] <= Len(audio_files[w])
    /\ <<wpc[w], pos[w]>>' # <<wpc[w], pos[w]>>

\* the step in which batch_transcribe deals with the item it is at
BtDecides == pc = "bt_loop" /\ i <= Len(videos_to_process) /\ <<pc, i>>' # <<pc, i>>

\* the step in which process_json_file deals with the entry it is at
PjDecides == pc = "pj_loop" /\ i <= pj_total /\ <<pc, i>>' # <<pc, i>>

\* the item is passed over: the next item is the current one, no tool is
\* invoked and no transcript is touched
Untouched == transcripts' = transcripts /\ calls' = calls

\* C13 as stated: in the three drivers an item whose output exists and is not
\* empty is skipped, with no call of a tool and its file unchanged, and an
\* item whose output is missing or empty is processed.
C13_SkipIffNonEmpty ==
    [][/\ \A w \in DOMAIN wpc : FwDecides(w) =>
            IF HasContent(PathStem(audio_files[w][pos[w]]))
            THEN Untouched /\ pos'[w] = pos[w] + 1 /\ wpc'[w] = "loop"
            ELSE wpc'[w] = "try"
       /\ BtDecides =>
            IF HasContent(videos_to_process[i])
            THEN Untouched /\ i' = i + 1 /\ skip_count' = skip_count + 1
            ELSE calls' # calls \/ pc' = "bt_interrupted"
       /\ PjDecides /\ PjVideoId # None =>
            IF HasContent(PjVideoId[1])
            THEN Untouched /\ i' = i + 1
            ELSE calls' # calls]_vars

\* C13 as amended: the same with the decision of batch_transcribe and of
\* process_json_file being that the output exists, empty or not; in
\* transcribe_fw what follows the decision to process is the call of the
\* recognizer, or the interruption of the run.
C13_SkipDecision ==
    [][/\ \A w \in DOMAIN wpc :
            /\ FwDecides(w) =>
                IF HasContent(PathStem(audio_files[w][pos[w]]))
                THEN Untouched /\ pos'[w] = pos[w] + 1 /\ wpc'[w] = "loop"
                ELSE Untouched /\ wpc'[w] = "try"
            /\ (pc = "fw" /\ wpc[w] = "try" /\ wpc'[w] # "try") =>
                \/ [tool |-> "transcribe", item |-> audio_files[w][pos[w]], by |-> w]
                        \in calls' \ calls
                \/ wpc'[w] = "interrupted"
       /\ BtDecides =>
            IF IsThere(videos_to_process[i])
            THEN Untouched /\ i' = i + 1 /\ skip_count' = skip_count + 1
            ELSE \/ [tool |-> "get_manual_subtitles", item |-> videos_to_process[i],
                     by |-> run] \in calls' /\ skip_count' = skip_count
                 \/ pc' = "bt_interrupted"
       /\ PjDecides /\ PjVideoId # None =>
            IF IsThere(PjVideoId[1])
            THEN Untouched /\ i' = i + 1
            ELSE [tool |-> "process_video", item |-> videos[i].id, by |-> 1]
                    \in calls' \ calls]_vars

\* batch_transcribe has skipped a video whose transcript is an empty file
C13_Witness ==
    /\ pc = "bt_done"
    /\ skip_count = 1
    /\ \E j \in 1..Len(videos_to_process) : transcripts[videos_to_process[j]] = Some(<<>>)
    /\ calls = {}

\* the step in which the processing of the file worker w is at fails: the
\* exception is printed
FwFails(w) ==
    /\ pc = "fw"
    /\ wpc[w] \in {"try", "write"}
    /\ [tool |-> "[FAIL]", item |-> audio_files[w][pos[w]], by |-> w] \in calls' \ calls

\* the step in which the processing of the item batch_transcribe is at fails
BtFails == pc = "bt_loop" /\ i <= Len(videos_to_process) /\ error_count' = error_count + 1

FwRun(w) ==
    /\ w \in Workers
    /\ pc = "fw"
    /\ \/ FwShard(w)
       \/ FwSkip(w)
       \/ FwBegin(w)
       \/ FwTranscribeFail(w)
       \/ FwOpen(w)
       \/ FwWriteSeg(w)
       \/ FwClose(w)
       \/ FwWriteFail(w)
       \/ FwEnd(w)

\* what batch_transcribe does when it is left to run
BtRun ==
    \/ BtStart
    \/ BtSkip
    \/ BtManual
    \/ BtManualFail
    \/ BtWhisper
    \/ BtWhisperNoOutput
    \/ BtWhisperFail
    \/ BtDone

\* what process_json_file does when it is left to run
PjRun == PjSkip \/ PjProcess \/ PjFail \/ PjDone

\* a run of one of the drivers, transcribe_fw being run as a single process
InitOneProcess == InitBt \/ InitPj \/ (InitFw /\ TOTAL_SHARDS = 1)

\* The drivers are sequential programs whose steps return: a run that is not
\* interrupted goes on.
SpecDriversFair ==
    /\ InitOneProcess
    /\ [][NextDrivers]_vars
    /\ WF_vars(FwRun(0))
    /\ WF_vars(BtRun)
    /\ WF_vars(PjRun)

\* the item at position j of batch_transcribe's worklist has been dealt with
\* in this run: it was skipped for its transcript, or its processing began
BtAttempted(j) ==
    \/ IsThere(videos_to_process[j])
    \/ [tool |-> "get_manual_subtitles", item |-> videos_to_process[j], by |-> run] \in calls

\* the same for the entry at position j of process_json_file's list
PjAttempted(j) ==
    \/ videos[j].video_id # None /\ IsThere(videos[j].video_id[1])
    \/ ExtractId(videos[j].url) # None /\ IsThere(ExtractId(videos[j].url)[1])
    \/ [tool |-> "process_video", item |-> videos[j].id, by |-> 1] \in calls

\* the same for the file at position j of worker w's shard
FwAttempted(w, j) ==
    \/ HasContent(PathStem(audio_files[w][j]))
    \/ [tool |-> "transcribe", item |-> audio_files[w][j], by |-> w] \in calls

\* A step at an item of the worklist either is the interruption, which stops
\* the run where it is, or ends with the loop at the next item; a failure
\* is of the second kind.  The loop is left for its end only when the
\* worklist is exhausted, and nothing is processed after an interruption.
C15_StepsKeepTheLoop ==
    /\ \A w \in DOMAIN wpc :
        /\ FwFails(w) => wpc'[w] = "loop" /\ pos'[w] = pos[w] + 1
        /\ (pc = "fw" /\ wpc[w] # wpc'[w] /\ wpc'[w] \in {"done", "interrupted"}) =>
                IF wpc'[w] = "done" THEN pos[w] > Len(audio_files[w])
                ELSE wpc[w] \in {"try", "write"}
        /\ (pc = "fw" /\ wpc[w] \in {"done", "interrupted"}) =>
                /\ wpc'[w] = wpc[w]
                /\ pos'[w] = pos[w]
                /\ \A c \in calls' \ calls : c.by # w
    /\ BtFails => pc' = "bt_loop" /\ i' = i + 1
    /\ (pc = "bt_loop" /\ i <= Len(videos_to_process)) =>
            \/ pc' = "bt_loop" /\ i' = i + 1
            \/ pc' = "bt_interrupted" /\ i' = i /\ hint' # None
    /\ (pc = "bt_loop" /\ i > Len(videos_to_process)) => pc' = "bt_done"
    /\ pc \in {"bt_done", "bt_interrupted"} => Untouched
    /\ (pc = "pj_loop" /\ i <= pj_total) =>
            \/ pc' = "pj_loop" /\ i' = i + 1
            \/ pc' = "pj_interrupted" /\ i' = i
    /\ (pc = "pj_loop" /\ i > pj_total) => pc' = "pj_done"
    /\ pc \in {"pj_done", "pj_interrupted"} => Untouched /\ pc' = pc

\* the run has reached its end with every item of its worklist attempted
BtEnded == pc = "bt_done" /\ \A j \in 1..Len(videos_to_process) : BtAttempted(j)
PjEnded == pc = "pj_done" /\ \A j \in 1..pj_total : PjAttempted(j)
FwEnded(w) == wpc[w] = "done" /\ \A j \in 1..Len(audio_files[w]) : FwAttempted(w, j)

\* worker w of transcribe_fw, if there is one, has things to do
FwRunning(w) ==
    IF pc = "fw" /\ w \in DOMAIN wpc THEN wpc[w] \notin {"done", "interrupted"} ELSE FALSE

\* worker w of transcribe_fw, if there is one, has stopped
FwStopped(w) ==
    IF pc = "fw" /\ w \in DOMAIN wpc THEN FwEnded(w) \/ wpc[w] = "interrupted" ELSE TRUE

\* a run of one of the drivers is in its loop
Running == pc \in {"bt_loop", "pj_loop"} \/ FwRunning(0)

\* the run has reached its end with every item of its worklist attempted, or
\* it was interrupted
Stopped ==
    CASE pc \in {"bt_start", "bt_loop", "bt_done", "bt_interrupted"} ->
            BtEnded \/ pc = "bt_interrupted"
      [] pc \in {"pj_loop", "pj_done", "pj_interrupted"} ->
            PjEnded \/ pc = "pj_interrupted"
      [] OTHER -> FwStopped(0)

\* C15: in batch_transcribe, process_json_file and the loop of transcribe_fw
\* a recoverable failure on an item ends only that item: the loop goes on
\* with the next item, every item of the worklist is attempted and the run
\* reaches its end, unless the user interrupts it; only the interruption
\* stops a run before its worklist is exhausted, and nothing is processed
\* after it.
C15_FailureEndsOnlyTheItem ==
    /\ [][C15_StepsKeepTheLoop]_vars
    /\ [](Running => <>Stopped)

\* batch_transcribe has reached its end after a failure on its first item
\* and the processing of its second
C15_Witness ==
    /\ pc = "bt_done"
    /\ Len(videos_to_process) = 2
    /\ error_count = 1
    /\ success_count = 1
    /\ transcripts[videos_to_process[1]] = None
    /\ transcripts[videos_to_process[2]] # None

\* the videos of the worklist that a run of batch_transcribe builds from vi
\* with the arguments sf and mv
InWorklist(vi, sf, mv) ==
    {Worklist(vi, sf, mv)[k] : k \in 1..Len(Worklist(vi, sf, mv))}

\* C16: batch_transcribe, called with start_from = 0 and no max_videos, is
\* interrupted at the item of position i; the tool is run again with
\* start_from set to the hint printed.  The worklist of the new run holds the
\* interrupted item and every later item of the interrupted worklist that has
\* no transcript yet.
C16_HintSkipsOnlyDoneWork ==
    [][(pc = "bt_interrupted" /\ pc' = "bt_start" /\ start_from = 0 /\ max_videos = None) =>
            \A j \in i..Len(videos_to_process) :
                transcripts[videos_to_process[j]] = None =>
                    videos_to_process[j] \in InWorklist(video_info', start_from', max_videos')]_vars

\* the lines of the subtitle file c that are neither blank nor WEBVTT lines,
\* trimmed, each with a newline, in the order of the file
SubtitleLines(c) ==
    LET ls   == ReadLines(c)
        keep == {k \in 1..Len(ls) :
                    Strip(ls[k]) # <<>> /\ ~StartsWith(Strip(ls[k]), WebVtt)}
    IN  [n \in 1..Cardinality(keep) |->
            Strip(ls[CHOOSE k \in keep : Cardinality({m \in keep : m < k}) = n - 1])
                \o <<"\n">>]

\* the step in which batch_transcribe deals, to the end, with an item that
\* has manual Chinese subtitles and no transcript
BtManualItem ==
    /\ pc = "bt_loop"
    /\ i <= Len(videos_to_process)
    /\ ManualSubs(videos_to_process[i])
    /\ ~IsThere(videos_to_process[i])
    /\ pc' = "bt_loop"

\* C19: in batch_transcribe an item with manual Chinese subtitles is produced
\* from its subtitle file only: its transcript is clean_repeated_lines of the
\* file's non-blank, non-WEBVTT lines, boilerplate markers kept, or the item
\* fails with no transcript when the download gives no subtitle file; the
\* recognizer (process_video) is invoked for no such item, and so only for
\* items without manual Chinese subtitles.
C19_ManualItemsSkipRecognizer ==
    [][/\ BtManualItem =>
            /\ [tool |-> "download_manual_subtitle", item |-> videos_to_process[i],
                 by |-> run] \in calls'
            /\ IF VttFile(videos_to_process[i]) # None
               THEN /\ transcripts'[videos_to_process[i]] =
                        Some(Concat(CleanRepeatedLines(
                                SubtitleLines(VttFile(videos_to_process[i])[1]))))
                    /\ success_count' = success_count + 1
                    /\ error_count' = error_count
               ELSE /\ transcripts'[videos_to_process[i]] = None
                    /\ error_count' = error_count + 1
                    /\ success_count' = success_count
       /\ pc \in {"bt_start", "bt_loop", "bt_done", "bt_interrupted"} =>
            \A c \in calls' : c.tool = "process_video" => ~ManualSubs(c.item)]_vars

\* batch_transcribe has ended with the transcript of video a made of its
\* subtitle file, the music marker kept and the repeated line dropped, and
\* with video c failed for its subtitle download
C19_Witness ==
    /\ pc = "bt_done"
    /\ [tool |-> "download_manual_subtitle", item |-> <<"a">>, by |-> 1] \in calls
    /\ [tool |-> "download_manual_subtitle", item |-> <<"c">>, by |-> 1] \in calls
    /\ transcripts[<<"a">>] =
            Some(TimeLine1 \o <<"\n">> \o DaJiaHao \o <<"\n">> \o TimeLine2 \o <<"\n">>
                 \o <<"[">> \o YinYue \o <<"]">> \o JinTian \o <<"\n">>)
    /\ transcripts[<<"c">>] = None
    /\ error_count = 1
    /\ success_count = 1

\* the entries of videos at the positions of P, in the order of videos
RECURSIVE Picked(_, _)
Picked(P, n) ==
    IF n = 0 THEN <<>>
    ELSE Picked(P, n - 1) \o (IF n \in P THEN <<videos[n]>> ELSE <<>>)

\* the video ids of a list of entries, None for an entry without
IdsOf(es) == [k \in 1..Len(es) |-> es[k].video_id]

\* the first n entries of videos are split between manifest and failed, each
\* entry in one of the two, in the order of the input
SplitOf(n) ==
    \E P \in SUBSET (1..n) :
        /\ IdsOf(Picked(P, n)) = [k \in 1..Len(manifest) |-> Some(manifest[k].video_id)]
        /\ IdsOf(Picked((1..n) \ P, n)) = [k \in 1..Len(failed) |-> Some(failed[k].video_id)]

\* the state of the lists and the files in download_audio_from_json.main
\* when i - 1 entries have been dealt with
DlListsRight ==
    /\ Len(manifest) + Len(failed) = i - 1
    /\ SplitOf(i - 1)
    /\ pc = "dl_done" => Len(manifest) + Len(failed) = Len(videos)
    /\ \A k \in 1..Len(manifest) : audio[manifest[k].video_id] = "good"

\* C20: in download_audio_from_json.main every entry dealt with is in exactly
\* one of manifest and failed, so that at the end the two lengths add up to
\* the number of input videos; the audio of every entry of manifest exists
\* and is parsed by ffprobe; and for an entry whose audio already exists and
\* is parsed by ffprobe the downloader is not invoked and the entry goes to
\* manifest.
C20_ManifestOrFailed ==
    [][/\ pc \in {"dl_loop", "dl_done"} => DlListsRight'
       /\ (/\ pc = "dl_loop"
           /\ i <= Len(videos)
           /\ i' = i + 1
           /\ videos[i].video_id # None
           /\ audio[videos[i].video_id[1]] = "good") =>
                /\ calls' = calls
                /\ audio' = audio
                /\ Len(manifest') = Len(manifest) + 1]_vars

\* main has ended with one video in manifest, for which the downloader was
\* not run, and one in failed, for which it was
C20_Witness ==
    /\ pc = "dl_done"
    /\ Len(videos) = 2
    /\ Len(manifest) = 1
    /\ Len(failed) = 1
    /\ calls = {[tool |-> "yt-dlp", item |-> failed[1].video_id, by |-> 2]}
    /\ manifest[1].video_id # failed[1].video_id

\* success_count + error_count + skip_count
Counted == success_count + error_count + skip_count

\* C21: in batch_transcribe each item that finishes adds one to exactly one
\* of success_count, error_count and skip_count; at every iteration boundary,
\* and when the run is interrupted, the three add up to the number of items
\* finished, and when the loop has ended they add up to the length of the
\* worklist.
C21_CountsAddUp ==
    [][/\ pc' \in {"bt_loop", "bt_done", "bt_interrupted"} => Counted' = i' - 1
       /\ pc' = "bt_done" => Counted' = Len(videos_to_process')
       /\ (BtDecides /\ pc' = "bt_loop") =>
            /\ i' = i + 1
            /\ \/ /\ success_count' = success_count + 1
                  /\ error_count' = error_count
                  /\ skip_count' = skip_count
               \/ /\ success_count' = success_count
                  /\ error_count' = error_count + 1
                  /\ skip_count' = skip_count
               \/ /\ success_count' = success_count
                  /\ error_count' = error_count
                  /\ skip_count' = skip_count + 1
       /\ (BtDecides /\ pc' = "bt_interrupted") =>
            Counted' = Counted /\ i' = i]_vars

\* batch_transcribe has ended with one item skipped and one failed
C21_Witness ==
    /\ pc = "bt_done"
    /\ Len(videos_to_process) = 2
    /\ skip_count = 1
    /\ error_count = 1
    /\ success_count = 0

\* C22: _is_duplicate_line gives the same answer with its two lines
\* exchanged, whatever the threshold, and answers True for a line and itself,
\* the empty line and a line of punctuation included.
C22_SymmetricReflexive ==
    pc = "dup_done" =>
        /\ ret = Some(IsDuplicateLine(line2, line1, threshold))
        /\ line1 = line2 => ret = Some(TRUE)

\* the longer line came first and the two were found duplicates for the
\* shorter being part of the longer
C22_Witness ==
    /\ pc = "dup_done"
    /\ Len(KeepAlnum(line1)) > Len(KeepAlnum(line2))
    /\ KeepAlnum(line2) # <<>>
    /\ ret = Some(TRUE)

\* info['transcript_source'] of the video id, as video_info has it
SourceOf(vi, id) ==
    LET j == CHOOSE k \in 1..Len(vi) : vi[k].video_id = id IN vi[j].transcript_source

\* C23: at every iteration boundary of batch_transcribe, and at its end, a
\* video whose transcript_source is 'manual' or 'whisper' has its transcript
\* file, and the item that has just failed has an empty transcript_source.
C23_SourceMeansTranscript ==
    [][/\ pc' \in {"bt_loop", "bt_done"} =>
            \A j \in 1..Len(video_info') :
                video_info'[j].transcript_source # <<>> =>
                    transcripts'[video_info'[j].video_id] # None
       /\ BtFails => SourceOf(video_info', videos_to_process[i]) = <<>>]_vars

\* C24: when process_video has ended, by return, error or interruption, the
\* temporary audio file does not exist if keep_audio is False and exists if
\* keep_audio is True.
C24_AudioAsKeepAudioSays ==
    pc \in {"pv_returned", "pv_raised", "pv_interrupted"}
        => /\ ~keep_audio => ~temp_audio
           /\ keep_audio /\ audio_path # None => temp_audio

\* process_video has downloaded the audio with keep_audio = True and is
\* interrupted afterwards
C24_KeptAudioInterrupted ==
    pc = "pv_interrupted" /\ keep_audio /\ audio_path # None

\* the parts of C24 that the three handlers keep: after a return or an error
\* the audio is as keep_audio says whenever download_audio has returned
C24_ReturnAndError ==
    pc \in {"pv_returned", "pv_raised"} /\ audio_path # None
        => (temp_audio <=> keep_audio)

====
